---- MODULE Spec2Model ----
(***************************************************************************)
(* A model of the mastery / progression engine of the AI tutor:            *)
(*   - KnowledgeGraphMasteryAgent   (src/agents/mastery_agent.py)          *)
(*   - StudentProfileAgent          (src/agents/student_profile.py)        *)
(*   - QuestionPickerAgent          (src/agents/question_picker.py)        *)
(*                                                                         *)
(* Conventions.                                                            *)
(*   - A Python float is modelled by an exact rational <<num, den>> in     *)
(*     lowest terms (den > 0); rounding of IEEE doubles is not modelled.   *)
(*   - A Python str on which the code computes (lower(), `in`) is a        *)
(*     sequence of one-character strings; a str used only as a key or a    *)
(*     label is a TLA+ string.                                             *)
(*   - A dict is a function whose DOMAIN is the set of keys present.       *)
(*   - datetime.now() stamps are left out, except completed_at, which is   *)
(*     modelled by the ordinal of the write (0 stands for None).           *)
(***************************************************************************)
EXTENDS Integers, Sequences, FiniteSets, TLC

(***************************************************************************)
(* Bounds of the model.                                                    *)
(***************************************************************************)
\* record_attempt calls over all subtopics
MaxAttempts == 2
\* successful estimator calls (entries of problem_assessments)
MaxAssessments == 2
\* the same two, where the learner walks the whole subtopic sequence
MaxWalkAttempts == 3
MaxWalkAssessments == 3
\* advance_to_next_subtopic calls past the end of the sequence
MaxOverrun == 1
\* save_question_data calls (entries of questions_history)
MaxSaves == 4
\* the same, where one subtopic is tracked
MaxTrackedSaves == 3
\* the same, where the running means are followed
MaxMeanSaves == 3
\* the same, where the weak concepts are followed
MaxWeakSaves == 2
\* recorded attempts, stored assessments and saves together, where both
\* agents are called in any order
MaxLedgerCalls == 3

\* turns of a web session
MaxTurns == 3

(***************************************************************************)
(* Exact rationals for float arithmetic.                                   *)
(***************************************************************************)
RECURSIVE GCD(_, _)
GCD(a, b) ==
    IF b = 0 THEN a ELSE GCD(b, a % b)

Rat(n, d) ==
    LET g == GCD(n, d) IN IF g = 0 THEN <<0, 1>> ELSE <<n \div g, d \div g>>

RatAdd(x, y) ==
    Rat(x[1] * y[2] + y[1] * x[2], x[2] * y[2])

RatMul(x, y) ==
    Rat(x[1] * y[1], x[2] * y[2])

\* x / y for y > 0
RatDiv(x, y) ==
    Rat(x[1] * y[2], x[2] * y[1])

RatGeq(x, y) ==
    x[1] * y[2] >= y[1] * x[2]

RatLt(x, y) ==
    x[1] * y[2] < y[1] * x[2]

Zero == <<0, 1>>

\* an int as a float
Num(n) ==
    <<n, 1>>

\* the literal 0.8 of the fallback estimates
FallbackFactor ==
    <<4, 5>>

(***************************************************************************)
(* The knowledge graph and the problem bank: three subtopics in sequence.  *)
(***************************************************************************)
None == "<None>"

InnerJoin ==
    <<"I", "N", "N", "E", "R", " ", "J", "O", "I", "N">>

OuterJoin ==
    <<"O", "U", "T", "E", "R", " ", "J", "O", "I", "N">>

CrossJoin ==
    <<"C", "R", "O", "S", "S", " ", "J", "O", "I", "N">>

\* skills of the knowledge graph
Join ==
    <<"j", "o", "i", "n">>

OnClause ==
    <<"O", "N", " ", "c", "l", "a", "u", "s", "e">>

Alias ==
    <<"a", "l", "i", "a", "s">>

Null ==
    <<"N", "U", "L", "L">>

\* the catalog files on disk: for each of knowledge_graph.json and
\* problems.json the variant it holds, or "absent"
VARIABLE catalog

\* a knowledge_graph.json in which every subtopic has clusters
FullGraph ==
    [topics |-> <<
       [topic_name |-> "SQL Joins",
        subtopics |-> <<
          [subtopic_id |-> "A", subtopic_name |-> InnerJoin,
           clusters |-> <<
             [cluster_id |-> "c1", complexity_level |-> 1,
              skills_tested |-> <<Join, OnClause>>],
             [cluster_id |-> "c4", complexity_level |-> 4,
              skills_tested |-> <<Join, Alias>>] >>],
          [subtopic_id |-> "B", subtopic_name |-> OuterJoin,
           clusters |-> <<
             [cluster_id |-> "c2", complexity_level |-> 2,
              skills_tested |-> <<Join, Null>>] >>],
          [subtopic_id |-> "C", subtopic_name |-> CrossJoin,
           clusters |-> <<
             [cluster_id |-> "c3", complexity_level |-> 3,
              skills_tested |-> <<Join>>] >>] >>] >>]

\* a knowledge_graph.json whose second subtopic has no clusters
SparseGraph ==
    [topics |-> <<
       [topic_name |-> "SQL Joins",
        subtopics |-> <<
          [subtopic_id |-> "A", subtopic_name |-> InnerJoin,
           clusters |-> <<
             [cluster_id |-> "c1", complexity_level |-> 1,
              skills_tested |-> <<Join, OnClause>>],
             [cluster_id |-> "c4", complexity_level |-> 4,
              skills_tested |-> <<Join, Alias>>] >>],
          [subtopic_id |-> "B", subtopic_name |-> OuterJoin,
           clusters |-> <<>>],
          [subtopic_id |-> "C", subtopic_name |-> CrossJoin,
           clusters |-> <<
             [cluster_id |-> "c3", complexity_level |-> 3,
              skills_tested |-> <<Join>>] >>] >>] >>]

\* a knowledge_graph.json whose first subtopic has no cluster of
\* complexity 1
BareGraph ==
    [topics |-> <<
       [topic_name |-> "SQL Joins",
        subtopics |-> <<
          [subtopic_id |-> "A", subtopic_name |-> InnerJoin,
           clusters |-> <<
             [cluster_id |-> "c4", complexity_level |-> 4,
              skills_tested |-> <<Join, Alias>>] >>],
          [subtopic_id |-> "B", subtopic_name |-> OuterJoin,
           clusters |-> <<
             [cluster_id |-> "c2", complexity_level |-> 2,
              skills_tested |-> <<Join, Null>>] >>] >>] >>]

\* a knowledge_graph.json whose second subtopic has an easy and a hard
\* cluster
WideGraph ==
    [topics |-> <<
       [topic_name |-> "SQL Joins",
        subtopics |-> <<
          [subtopic_id |-> "A", subtopic_name |-> InnerJoin,
           clusters |-> <<
             [cluster_id |-> "c1", complexity_level |-> 1,
              skills_tested |-> <<Join, OnClause>>] >>],
          [subtopic_id |-> "B", subtopic_name |-> OuterJoin,
           clusters |-> <<
             [cluster_id |-> "c2", complexity_level |-> 2,
              skills_tested |-> <<Join, Null>>],
             [cluster_id |-> "c5", complexity_level |-> 4,
              skills_tested |-> <<Join, Alias>>] >>] >>] >>]

\* a problems.json with problems for every cluster
FullBank ==
    << [problem_id |-> "p1", cluster_id |-> "c1",
        brief_summary |-> <<"j", "o", "i", "n", " ", "o", "n">>],
       [problem_id |-> "p2", cluster_id |-> "c1",
        brief_summary |-> <<"j", "o", "i", "n">>],
       [problem_id |-> "p3", cluster_id |-> "c4",
        brief_summary |-> <<"a", "l", "i", "a", "s">>],
       [problem_id |-> "p4", cluster_id |-> "c2",
        brief_summary |-> <<"n", "u", "l", "l">>],
       [problem_id |-> "p5", cluster_id |-> "c3",
        brief_summary |-> <<"j", "o", "i", "n">>],
       [problem_id |-> "p6", cluster_id |-> "c5",
        brief_summary |-> <<"a", "l", "i", "a", "s">>] >>

\* a problems.json without problems for the clusters c2, c4 and c5
SparseBank ==
    << [problem_id |-> "p1", cluster_id |-> "c1",
        brief_summary |-> <<"j", "o", "i", "n", " ", "o", "n">>],
       [problem_id |-> "p2", cluster_id |-> "c1",
        brief_summary |-> <<"j", "o", "i", "n">>],
       [problem_id |-> "p5", cluster_id |-> "c3",
        brief_summary |-> <<"j", "o", "i", "n">>] >>

\* a problems.json that holds an empty list
EmptyBank ==
    <<>>

\* the variants a present file may hold
GraphVariants ==
    {"full", "sparse", "bare", "wide"}

BankVariants ==
    {"full", "sparse", "empty"}

\* what _load_knowledge_graph returns for each state of
\* knowledge_graph.json; the mastery agent's loader returns {} for an
\* absent file
LoadedGraph ==
    [v \in GraphVariants \cup {"absent"} |->
        CASE v = "full" -> FullGraph
          [] v = "sparse" -> SparseGraph
          [] v = "bare" -> BareGraph
          [] v = "wide" -> WideGraph
          [] OTHER -> <<>>]

\* self.knowledge_graph
knowledge_graph ==
    LoadedGraph[catalog.knowledge_graph]

\* what _load_problems returns for each state of problems.json; the mastery
\* agent's loader returns [] for an absent file
LoadedBank ==
    [v \in BankVariants \cup {"absent"} |->
        CASE v = "full" -> FullBank
          [] v = "sparse" -> SparseBank
          [] v = "empty" -> EmptyBank
          [] OTHER -> <<>>]

\* self.problems
problems ==
    LoadedBank[catalog.problems]

\* the concatenation of a sequence of sequences
RECURSIVE Flatten(_)
Flatten(ss) ==
    IF ss = <<>> THEN <<>> ELSE Head(ss) \o Flatten(Tail(ss))

\* the subtopics of each loaded graph, in the order of the file
LoadedSubtopics ==
    [v \in DOMAIN LoadedGraph |->
        LET topics == IF "topics" \in DOMAIN LoadedGraph[v]
                      THEN LoadedGraph[v].topics ELSE <<>>
        IN Flatten([t \in DOMAIN topics |-> topics[t].subtopics])]

\* the subtopics of the graph, in the order of the file
GraphSubtopics ==
    LoadedSubtopics[catalog.knowledge_graph]

\* _extract_subtopic_sequence on each loaded graph
LoadedSequence ==
    [v \in DOMAIN LoadedGraph |->
        [i \in DOMAIN LoadedSubtopics[v] |->
            [subtopic_id |-> LoadedSubtopics[v][i].subtopic_id,
             subtopic_name |-> LoadedSubtopics[v][i].subtopic_name]]]

\* self.subtopic_sequence
subtopic_sequence ==
    LoadedSequence[catalog.knowledge_graph]

\* the subtopic ids of each loaded graph
LoadedIds ==
    [v \in DOMAIN LoadedGraph |->
        {LoadedSequence[v][i].subtopic_id : i \in DOMAIN LoadedSequence[v]}]

SubtopicIds ==
    LoadedIds[catalog.knowledge_graph]

\* the label of a finished sequence in the progress file
Completed ==
    <<"C", "o", "m", "p", "l", "e", "t", "e", "d">>

\* self.mastery_threshold = 0.80
mastery_threshold ==
    <<4, 5>>

\* the minimum-attempt floor of the mastery rule
min_attempts == 3

(***************************************************************************)
(* State.                                                                  *)
(***************************************************************************)
VARIABLES
    \* KnowledgeGraphMasteryAgent
    subtopic_mastery_states,   \* subtopic_id -> SubtopicMasteryState
    current_subtopic_index,
    current_subtopic_id,
    problem_assessments,       \* list of per-problem assessments
    user_progress_file,        \* <<what _save_user_progress last wrote>>, or <<>>
    \* StudentProfileAgent
    session_data,              \* self.session_data
    profile,                   \* self.profile
    user_data_file,            \* <<what _save_user_data last wrote>>, or <<>>
    incoming_scores,           \* history: the scores fed to each tracking
                               \* record since it was created or reset
    \* QuestionPickerAgent
    current_subtopic,          \* <<>> is None, <<name>> is the subtopic
    asked_problems,
    \* st.session_state
    tutor_state,
    ret                        \* the last call and what it returned

agent_vars ==
    <<subtopic_mastery_states, current_subtopic_index, current_subtopic_id,
      problem_assessments, user_progress_file>>

student_vars ==
    <<session_data, profile, user_data_file, incoming_scores>>

picker_vars ==
    <<current_subtopic, asked_problems>>

vars ==
    <<subtopic_mastery_states, current_subtopic_index, current_subtopic_id,
      problem_assessments, user_progress_file, session_data, profile,
      user_data_file, incoming_scores, current_subtopic, asked_problems,
      tutor_state, catalog, ret>>

(***************************************************************************)
(* KnowledgeGraphMasteryAgent.                                             *)
(***************************************************************************)
NewSubtopicMasteryState ==
    [mastery_probability |-> Zero,
     total_attempts      |-> 0,
     correct_attempts    |-> 0,
     attempts_history    |-> <<>>,
     concepts_encountered |-> {},
     mastery_achieved    |-> FALSE,
     completed_at        |-> 0]

AgentInit ==
    /\ subtopic_mastery_states = [s \in SubtopicIds |-> NewSubtopicMasteryState]
    /\ current_subtopic_index = 0
    /\ current_subtopic_id = subtopic_sequence[1].subtopic_id
    /\ problem_assessments = <<>>
    /\ user_progress_file = <<>>

\* the agent object, self
mastery_agent ==
    [subtopic_mastery_states |-> subtopic_mastery_states,
     current_subtopic_index  |-> current_subtopic_index,
     current_subtopic_id     |-> current_subtopic_id,
     problem_assessments     |-> problem_assessments]

\* get_current_subtopic (the index is 0-based in the code): <<>> is None,
\* <<s>> is the subtopic s
get_current_subtopic(self) ==
    IF self.current_subtopic_index < Len(subtopic_sequence)
    THEN << subtopic_sequence[self.current_subtopic_index + 1] >>
    ELSE <<>>

TotalAttempts ==
    LET RECURSIVE Sum(_)
        Sum(S) == IF S = {} THEN 0
                  ELSE LET s == CHOOSE x \in S : TRUE
                       IN subtopic_mastery_states[s].total_attempts + Sum(S \ {s})
    IN Sum(SubtopicIds)

(***************************************************************************)
(* Python str as a sequence of characters.                                 *)
(***************************************************************************)
\* str.lower() on one character (the letters the model uses)
LowerChar(c) ==
    CASE c = "A" -> "a" [] c = "B" -> "b" [] c = "C" -> "c" [] c = "D" -> "d"
      [] c = "E" -> "e" [] c = "I" -> "i" [] c = "J" -> "j" [] c = "K" -> "k"
      [] c = "L" -> "l" [] c = "N" -> "n" [] c = "O" -> "o" [] c = "P" -> "p"
      [] c = "R" -> "r" [] c = "S" -> "s" [] c = "T" -> "t" [] c = "U" -> "u"
      [] c = "W" -> "w" [] OTHER -> c

\* str.lower()
Lower(s) ==
    [i \in DOMAIN s |-> LowerChar(s[i])]

\* str.strip(): leading and trailing blanks removed
RECURSIVE Strip(_)
Strip(s) ==
    IF s = <<>> THEN s
    ELSE IF Head(s) = " " THEN Strip(Tail(s))
    ELSE IF s[Len(s)] = " " THEN Strip(SubSeq(s, 1, Len(s) - 1))
    ELSE s

\* dict.get(k, default)
Get(d, k, default) ==
    IF k \in DOMAIN d THEN d[k] ELSE default

EmptyDict ==
    [k \in {} |-> None]

(***************************************************************************)
(* _grade_sql_answer                                                       *)
(***************************************************************************)
\* the answers that are taken for no answer (line 258)
IDontKnow ==
    <<"i", " ", "d", "o", "n", "t", " ", "k", "n", "o", "w">>

Idk ==
    <<"i", "d", "k">>

Skip ==
    <<"s", "k", "i", "p">>

DontKnow ==
    <<"d", "o", "n", "t", " ", "k", "n", "o", "w">>

IDoNotKnow ==
    <<"i", " ", "d", "o", "n", "'", "t", " ", "k", "n", "o", "w">>

\* the test of line 258 without lower()
NoAnswerCaseSensitive(user_answer) ==
    \/ user_answer = <<>>
    \/ user_answer \in {IDontKnow, Idk, Skip, DontKnow, IDoNotKnow}

\* the test of line 258
NoAnswer(user_answer) ==
    \/ user_answer = <<>>
    \/ Lower(user_answer) \in {IDontKnow, Idk, Skip, DontKnow, IDoNotKnow}

\* the result for no answer
NoAnswerResult ==
    [is_correct |-> FALSE,
     score |-> 0,
     feedback |-> "No valid answer provided.",
     explanation |-> "Please attempt to write a SQL query.",
     weak_concepts |-> <<>>,
     missing_concepts |-> <<>>,
     concept_understanding |-> EmptyDict]

\* a failed grading reported as a wrong answer with a weak concept
UngradedAsWeak ==
    [is_correct |-> FALSE,
     score |-> 0,
     feedback |-> "Unable to grade automatically.",
     explanation |-> "<str(e)>",
     weak_concepts |-> <<<<"j", "o", "i", "n">>>>,
     missing_concepts |-> <<>>,
     concept_understanding |-> EmptyDict]

\* the result when the grading chain raises e; str(e) is a label
UngradedResult ==
    [is_correct |-> FALSE,
     score |-> 0,
     feedback |-> "Unable to grade automatically.",
     explanation |-> "<str(e)>",
     weak_concepts |-> <<>>,
     missing_concepts |-> <<>>,
     concept_understanding |-> EmptyDict]

\* if k not in d: d[k] = v
SetDefault(d, k, v) ==
    IF k \in DOMAIN d THEN d ELSE d @@ (k :> v)

\* the defaults with a score of 0 whatever is_correct says
FilledResultScoreZero(result) ==
    LET r1 == SetDefault(result, "score", 0)
        r2 == SetDefault(r1, "is_correct", FALSE)
        r3 == SetDefault(r2, "feedback", "No feedback provided.")
        r4 == SetDefault(r3, "explanation", "No explanation provided.")
        r5 == SetDefault(r4, "weak_concepts", <<>>)
        r6 == SetDefault(r5, "missing_concepts", <<>>)
    IN SetDefault(r6, "concept_understanding", EmptyDict)

\* lines 276-290: the grader's dict with the missing keys filled in
FilledResult(result) ==
    LET r1 == SetDefault(result, "score",
                         IF Get(result, "is_correct", FALSE) THEN 50 ELSE 0)
        r2 == SetDefault(r1, "is_correct", FALSE)
        r3 == SetDefault(r2, "feedback", "No feedback provided.")
        r4 == SetDefault(r3, "explanation", "No explanation provided.")
        r5 == SetDefault(r4, "weak_concepts", <<>>)
        r6 == SetDefault(r5, "missing_concepts", <<>>)
    IN SetDefault(r6, "concept_understanding", EmptyDict)

\* what the grading chain does when it is invoked: it raises, or it answers
\* with a dict in which any key may be missing
GraderKeys ==
    {"score", "is_correct", "feedback", "explanation", "weak_concepts",
     "missing_concepts", "concept_understanding"}

GraderResponses ==
    LET Full(b) == [score |-> 80, is_correct |-> b,
                    feedback |-> "Good.", explanation |-> "Because.",
                    weak_concepts |-> <<Join>>,
                    missing_concepts |-> <<OnClause>>,
                    concept_understanding |-> [c \in {Join} |-> <<1, 2>>]]
    IN {[k \in K |-> Full(b)[k]] : b \in BOOLEAN, K \in SUBSET GraderKeys}

GraderOutcomes ==
    {[kind |-> "raise", response |-> EmptyDict]}
    \cup {[kind |-> "answer", response |-> r] : r \in GraderResponses}

\* _grade_sql_answer: the dict it returns and whether the grading chain was
\* invoked
GradeSqlAnswer(question, user_answer, outcome) ==
    IF NoAnswer(user_answer)
    THEN [result |-> NoAnswerResult, grader_invoked |-> FALSE]
    ELSE IF outcome.kind = "raise"
    THEN [result |-> UngradedResult, grader_invoked |-> TRUE]
    ELSE [result |-> FilledResult(outcome.response), grader_invoked |-> TRUE]

grade_sql_answer(question, user_answer, outcome) ==
    /\ ret' = [op |-> "grade_sql_answer",
               user_answer |-> user_answer,
               outcome |-> outcome,
               grader_invoked |->
                   GradeSqlAnswer(question, user_answer, outcome).grader_invoked,
               result |-> GradeSqlAnswer(question, user_answer, outcome).result]
    /\ UNCHANGED <<agent_vars, student_vars, picker_vars, tutor_state, catalog>>

(***************************************************************************)
(* record_attempt                                                          *)
(***************************************************************************)
\* the default question id f"q_{n}"
DefaultQuestionId(n) ==
    "q_" \o ToString(n)

\* the default concept 'general'
General ==
    <<"g", "e", "n", "e", "r", "a", "l">>

\* is_correct as record_attempt decides it; an evaluation of None is the
\* empty dict here (both are falsy in `if evaluation and ...`)
AttemptIsCorrect(user_answer, correct_answer, evaluation) ==
    IF "is_correct" \in DOMAIN evaluation
    THEN Get(evaluation, "is_correct", FALSE)
    ELSE IF correct_answer # <<>>
    THEN Lower(Strip(user_answer)) = Lower(Strip(correct_answer))
    ELSE FALSE

\* concepts_tested of the attempt
ConceptsTested(question) ==
    IF Get(question, "concepts", <<>>) # <<>>
    THEN question["concepts"]
    ELSE << Get(question, "cluster", General) >>

SeqRange(s) ==
    {s[i] : i \in DOMAIN s}

\* an agent that files every attempt under its current subtopic
RecordedUnderCurrent(self, question, user_answer, correct_answer, evaluation) ==
    LET is_correct == AttemptIsCorrect(user_answer, correct_answer, evaluation)
        concepts_tested == ConceptsTested(question)
        subtopic_id == self.current_subtopic_id
        st == self.subtopic_mastery_states[subtopic_id]
        attempt == [question_id |-> Get(question, "problem_id",
                                        DefaultQuestionId(st.total_attempts + 1)),
                    concepts_tested |-> concepts_tested,
                    user_answer |-> user_answer,
                    is_correct |-> is_correct,
                    subtopic |-> subtopic_id]
    IN [self.subtopic_mastery_states EXCEPT ![subtopic_id] =
          [st EXCEPT !.attempts_history = Append(st.attempts_history, attempt),
                     !.total_attempts = st.total_attempts + 1,
                     !.correct_attempts =
                         IF is_correct THEN st.correct_attempts + 1
                         ELSE st.correct_attempts,
                     !.concepts_encountered =
                         st.concepts_encountered \cup SeqRange(concepts_tested)]]

\* the state record_attempt leaves in subtopic_mastery_states
RecordedStates(self, question, user_answer, correct_answer, evaluation) ==
    LET is_correct == AttemptIsCorrect(user_answer, correct_answer, evaluation)
        concepts_tested == ConceptsTested(question)
        subtopic_id == Get(question, "subtopic_id", self.current_subtopic_id)
        st == self.subtopic_mastery_states[subtopic_id]
        attempt == [question_id |-> Get(question, "problem_id",
                                        DefaultQuestionId(st.total_attempts + 1)),
                    concepts_tested |-> concepts_tested,
                    user_answer |-> user_answer,
                    is_correct |-> is_correct,
                    subtopic |-> subtopic_id]
    IN [self.subtopic_mastery_states EXCEPT ![subtopic_id] =
          [st EXCEPT !.attempts_history = Append(st.attempts_history, attempt),
                     !.total_attempts = st.total_attempts + 1,
                     !.correct_attempts =
                         IF is_correct THEN st.correct_attempts + 1
                         ELSE st.correct_attempts,
                     !.concepts_encountered =
                         st.concepts_encountered \cup SeqRange(concepts_tested)]]

record_attempt(question, user_answer, correct_answer, evaluation) ==
    /\ subtopic_mastery_states' =
           RecordedStates(mastery_agent, question, user_answer, correct_answer,
                          evaluation)
    /\ ret' = [op |-> "record_attempt",
               subtopic_id |-> Get(question, "subtopic_id", current_subtopic_id),
               is_correct |-> AttemptIsCorrect(user_answer, correct_answer, evaluation)]
    /\ UNCHANGED <<current_subtopic_index, current_subtopic_id,
                   problem_assessments, user_progress_file>>
    /\ UNCHANGED <<student_vars, picker_vars, tutor_state, catalog>>

(***************************************************************************)
(* assess_mastery_with_llm                                                 *)
(***************************************************************************)
\* the estimator's JSON: any of its keys may be missing, and its own
\* mastery_achieved may say anything
EstimatorResponses ==
    {b @@ f : b \in {[mastery_probability |-> <<4, 5>>],
                     [mastery_probability |-> <<1, 2>>, confidence_level |-> "high"],
                     EmptyDict},
              f \in {EmptyDict, [mastery_achieved |-> TRUE],
                     [mastery_achieved |-> FALSE]}}

\* where a call of assess_mastery_with_llm may raise, and what the estimator
\* answers when it does not
EstimatorOutcomes ==
    {[kind |-> k, response |-> EmptyDict] : k \in {"context_error", "invoke_error"}}
    \cup {[kind |-> k, response |-> r] :
             k \in {"answer", "save_error"}, r \in EstimatorResponses}

\* the result for a subtopic without attempts
NoAttemptsResult ==
    [mastery_probability |-> Zero, confidence_level |-> "low",
     mastery_achieved |-> FALSE]

Max(a, b) ==
    IF a >= b THEN a ELSE b

\* except-branch of the context preparation (lines 363-374)
ContextFallback(st) ==
    [mastery_probability |->
         RatMul(RatDiv(Num(st.correct_attempts), Num(Max(st.total_attempts, 1))),
                FallbackFactor),
     confidence_level |-> "low",
     mastery_achieved |-> FALSE]

\* the fallback without its factor 0.8
EstimatorFallbackUnscaled(st) ==
    [mastery_probability |->
         IF st.total_attempts > 0
         THEN RatDiv(Num(st.correct_attempts), Num(st.total_attempts))
         ELSE Zero,
     confidence_level |-> "low",
     mastery_achieved |-> FALSE]

\* except-branch of the estimator call (lines 413-424)
EstimatorFallback(st) ==
    [mastery_probability |->
         RatMul(IF st.total_attempts > 0
                THEN RatDiv(Num(st.correct_attempts), Num(st.total_attempts))
                ELSE Zero,
                FallbackFactor),
     confidence_level |-> "low",
     mastery_achieved |-> FALSE]

\* assessment['mastery_achieved'] as the agent sets it (lines 391-393)
EngineMasteryFlag(response, probability) ==
    RatGeq(probability, mastery_threshold)

\* the dict _save_user_progress writes (lines 510-537)
ProgressSnapshot(self) ==
    LET states == self.subtopic_mastery_states
        assessments == self.problem_assessments
    IN
    [current_subtopic |->
         IF get_current_subtopic(self) # <<>>
         THEN get_current_subtopic(self)[1].subtopic_name ELSE Completed,
     current_subtopic_id |-> self.current_subtopic_id,
     subtopics_completed |->
         Cardinality({s \in SubtopicIds : states[s].mastery_achieved}),
     subtopic_progress |->
         [s \in SubtopicIds |->
            [mastery_probability |-> states[s].mastery_probability,
             mastery_achieved |-> states[s].mastery_achieved,
             total_attempts |-> states[s].total_attempts,
             correct_attempts |-> states[s].correct_attempts,
             completed_at |-> states[s].completed_at]],
     problem_assessments |-> assessments]

\* what one call does, given where it raises and what the estimator answers:
\* the returned dict, where the call raised ("none" if nowhere) and the state
\* left behind
AssessOutcome(self, file, o) ==
    LET current == self.current_subtopic_id
        st == self.subtopic_mastery_states[current]
        unchanged == [states |-> self.subtopic_mastery_states,
                      assessments |-> self.problem_assessments,
                      file |-> file]
    IN
    IF st.attempts_history = <<>>
    THEN [result |-> NoAttemptsResult, raised |-> "none"] @@ unchanged
    ELSE IF o.kind = "context_error"
    THEN [result |-> ContextFallback(st), raised |-> "context"] @@ unchanged
    ELSE IF o.kind = "invoke_error" \/ get_current_subtopic(self) = <<>>
    \* the chain raises, or get_current_subtopic() is None
    THEN [result |-> EstimatorFallback(st), raised |-> "estimator"] @@ unchanged
    ELSE IF "mastery_probability" \notin DOMAIN o.response
    \* KeyError
    THEN [result |-> EstimatorFallback(st), raised |-> "response"] @@ unchanged
    ELSE
    LET probability == o.response["mastery_probability"]
        flag == EngineMasteryFlag(o.response, probability)
        assessment == [mastery_achieved |-> flag] @@ o.response
        last_attempt == st.attempts_history[Len(st.attempts_history)]
        states == [self.subtopic_mastery_states EXCEPT
                      ![current].mastery_probability = probability]
        assessments ==
            Append(self.problem_assessments,
                   [problem_id |-> last_attempt.question_id,
                    subtopic_id |-> current,
                    subtopic_name |-> get_current_subtopic(self)[1].subtopic_name,
                    mastery_probability |-> probability,
                    confidence_level |-> Get(assessment, "confidence_level", "medium"),
                    mastery_achieved |-> flag])
    IN
    IF o.kind = "save_error"
    THEN [result |-> EstimatorFallback([st EXCEPT !.mastery_probability = probability]),
          raised |-> "save",
          states |-> states, assessments |-> assessments,
          file |-> file]
    ELSE [result |-> assessment, raised |-> "none",
          states |-> states, assessments |-> assessments,
          file |-> << ProgressSnapshot(
                          [self EXCEPT !.subtopic_mastery_states = states,
                                       !.problem_assessments = assessments]) >>]

assess_mastery_with_llm(o) ==
    LET out == AssessOutcome(mastery_agent, user_progress_file, o)
    IN
    /\ subtopic_mastery_states' = out.states
    /\ problem_assessments' = out.assessments
    /\ user_progress_file' = out.file
    /\ ret' = [op |-> "assess_mastery_with_llm",
               raised |-> out.raised,
               result |-> out.result]
    /\ UNCHANGED <<current_subtopic_index, current_subtopic_id>>
    /\ UNCHANGED <<student_vars, picker_vars, tutor_state, catalog>>

(***************************************************************************)
(* advance_to_next_subtopic                                                *)
(***************************************************************************)
\* the test that lets advance_to_next_subtopic mark the subtopic mastered
AdvanceAllowed(st) ==
    RatGeq(st.mastery_probability, mastery_threshold)

advance_to_next_subtopic ==
    LET st == subtopic_mastery_states[current_subtopic_id]
    IN
    /\ current_subtopic_index < Len(subtopic_sequence) + MaxOverrun
    /\ IF AdvanceAllowed(st)
       THEN /\ subtopic_mastery_states' =
                   [subtopic_mastery_states EXCEPT ![current_subtopic_id] =
                       [st EXCEPT !.mastery_achieved = TRUE,
                                  !.completed_at = st.completed_at + 1]]
            /\ current_subtopic_index' = current_subtopic_index + 1
            /\ IF current_subtopic_index + 1 < Len(subtopic_sequence)
               THEN /\ current_subtopic_id' =
                           subtopic_sequence[current_subtopic_index + 2].subtopic_id
                    /\ ret' = [op |-> "advance_to_next_subtopic", value |-> TRUE,
                               completed |-> current_subtopic_id]
               ELSE /\ current_subtopic_id' = current_subtopic_id
                    /\ ret' = [op |-> "advance_to_next_subtopic", value |-> FALSE,
                               completed |-> current_subtopic_id]
       ELSE /\ ret' = [op |-> "advance_to_next_subtopic", value |-> FALSE,
                       completed |-> None]
            /\ UNCHANGED <<subtopic_mastery_states, current_subtopic_index,
                           current_subtopic_id>>
    /\ UNCHANGED <<problem_assessments, user_progress_file>>
    /\ UNCHANGED <<student_vars, picker_vars, tutor_state, catalog>>

(***************************************************************************)
(* StudentProfileAgent.                                                    *)
(***************************************************************************)
\* the subtopic name of a question without cluster_info
Unknown ==
    <<"U", "n", "k", "n", "o", "w", "n">>

\* self.session_data as __init__ builds it.  weak_concepts is a dict whose
\* order of insertion the ranking depends on: a sequence of
\* [concept, occurrences], no concept twice
NewSessionData ==
    [questions_history |-> <<>>,
     mastery_tracking  |-> [concepts |-> EmptyDict,
                            subtopics |-> EmptyDict,
                            overall_mastery |-> Zero],
     weak_concepts     |-> <<>>,
     concept_gaps      |-> <<>>]

\* self.profile as __init__ builds it.  mastery_scores is {} ("empty") until
\* _update_mastery_tracking binds it to the object
\* session_data["mastery_tracking"] ("mastery_tracking")
NewProfile ==
    [category |-> "medium", mastery_scores |-> "empty"]

\* no score has been fed to any tracking record
NoScores ==
    [subtopics |-> EmptyDict, concepts |-> EmptyDict]

\* StudentProfileAgent(user_id, topic) for a user without a data file:
\* _load_or_create_user_data writes the new session data
StudentInit ==
    /\ session_data = NewSessionData
    /\ profile = NewProfile
    /\ user_data_file = << NewSessionData >>
    /\ incoming_scores = NoScores

\* get_profile: the dict self.profile, read through its binding
get_profile(sd, pr) ==
    [category |-> pr.category,
     mastery_scores |-> IF pr.mastery_scores = "mastery_tracking"
                        THEN sd.mastery_tracking ELSE EmptyDict]

\* position of a concept in the weak-concept dict, 0 if it is not a key
IndexOfConcept(weak, c) ==
    IF \E i \in DOMAIN weak : weak[i].concept = c
    THEN CHOOSE i \in DOMAIN weak : weak[i].concept = c
    ELSE 0

\* the loop over evaluation["weak_concepts"]
RECURSIVE TrackWeakList(_, _)
TrackWeakList(weak, list) ==
    IF list = <<>> THEN weak
    ELSE LET c == Head(list)
             i == IndexOfConcept(weak, c)
         IN TrackWeakList(IF i = 0
                          THEN Append(weak, [concept |-> c, occurrences |-> 1])
                          ELSE [weak EXCEPT ![i].occurrences = @ + 1],
                          Tail(list))

\* a gap list that takes every missing concept, listed before or not
RECURSIVE TrackGapListNoDedup(_, _)
TrackGapListNoDedup(gaps, list) ==
    IF list = <<>> THEN gaps
    ELSE TrackGapListNoDedup(Append(gaps, Head(list)), Tail(list))

\* the loop over evaluation["missing_concepts"]
RECURSIVE TrackGapList(_, _)
TrackGapList(gaps, list) ==
    IF list = <<>> THEN gaps
    ELSE TrackGapList(IF Head(list) \in SeqRange(gaps) THEN gaps
                      ELSE Append(gaps, Head(list)),
                      Tail(list))

\* a tracker that files a wrong answer without named concepts under
\* 'general'
TrackingEveryWrongAnswer(sd, evaluation) ==
    LET reported == Get(evaluation, "weak_concepts", <<>>)
        weak == IF reported = <<>> /\ ~Get(evaluation, "is_correct", FALSE)
                THEN << General >> ELSE reported
    IN [sd EXCEPT !.weak_concepts = TrackWeakList(@, weak),
                  !.concept_gaps =
                      TrackGapList(@, Get(evaluation, "missing_concepts", <<>>))]

\* _track_weak_concepts
track_weak_concepts(sd, evaluation) ==
    [sd EXCEPT !.weak_concepts =
                   TrackWeakList(@, Get(evaluation, "weak_concepts", <<>>)),
               !.concept_gaps =
                   TrackGapList(@, Get(evaluation, "missing_concepts", <<>>))]

\* an average in which the latest score weighs as much as all before it
RunningMeanHalved(prev_score, prev_attempts, score) ==
    RatDiv(RatAdd(prev_score, score), Num(2))

\* (prev_score * prev_attempts + score) / (prev_attempts + 1)
RunningMean(prev_score, prev_attempts, score) ==
    RatDiv(RatAdd(RatMul(prev_score, Num(prev_attempts)), score),
           Num(prev_attempts + 1))

\* the flag of a subtopic record whose assessment says anything
TrackedMasteryFlagNoFloor(mastery_assessment, new_attempts) ==
    Get(mastery_assessment, "mastery_achieved", FALSE)

\* mastery_achieved of a subtopic record that exists already (line 248)
TrackedMasteryFlag(mastery_assessment, new_attempts) ==
    Get(mastery_assessment, "mastery_achieved", FALSE)
        /\ new_attempts >= min_attempts

\* the subtopic a question is filed under
SubtopicOf(question_data) ==
    Get(Get(question_data, "cluster_info", EmptyDict), "subtopic_name", Unknown)

\* _update_mastery_tracking, on session_data
update_mastery_tracking(sd, question_data, evaluation, mastery_assessment) ==
    LET subtopic == SubtopicOf(question_data)
        tracking == sd.mastery_tracking
        concept_mastery == Get(mastery_assessment, "concept_mastery", EmptyDict)
        concepts ==
            [skill \in DOMAIN tracking.concepts \cup DOMAIN concept_mastery |->
                IF skill \notin DOMAIN concept_mastery
                THEN tracking.concepts[skill]
                ELSE IF skill \notin DOMAIN tracking.concepts
                THEN [mastery_score |-> concept_mastery[skill], attempts |-> 1]
                ELSE LET prev == tracking.concepts[skill]
                     IN [mastery_score |->
                             RunningMean(prev.mastery_score, prev.attempts,
                                         concept_mastery[skill]),
                         attempts |-> prev.attempts + 1]]
        subtopic_mastery == Get(mastery_assessment, "subtopic_mastery", Zero)
        record ==
            IF subtopic \notin DOMAIN tracking.subtopics
            THEN [mastery_score |-> subtopic_mastery,
                  attempts |-> 1,
                  mastery_achieved |-> FALSE]
            ELSE LET prev == tracking.subtopics[subtopic]
                     new_attempts == prev.attempts + 1
                 IN [mastery_score |->
                         RunningMean(prev.mastery_score, prev.attempts,
                                     subtopic_mastery),
                     attempts |-> new_attempts,
                     mastery_achieved |->
                         TrackedMasteryFlag(mastery_assessment, new_attempts)]
    IN [sd EXCEPT !.mastery_tracking =
           [concepts |-> concepts,
            subtopics |-> [k \in DOMAIN tracking.subtopics \cup {subtopic} |->
                              IF k = subtopic THEN record
                              ELSE tracking.subtopics[k]],
            overall_mastery |-> record.mastery_score]]

\* the assessment save_question_data uses when it is given None
DefaultMasteryAssessment ==
    [mastery_probability |-> Zero,
     concept_mastery |-> EmptyDict,
     subtopic_mastery |-> Zero,
     confidence_level |-> "low",
     mastery_achieved |-> FALSE]

\* session_data after save_question_data; mastery_assessment is <<>> for
\* None and <<d>> for the dict d, evaluation is the empty dict for None
SavedSessionData(sd, question_data, user_answer, classification, evaluation, mastery_assessment) ==
    LET assessment == IF Len(mastery_assessment) = 0
                      THEN DefaultMasteryAssessment
                      ELSE mastery_assessment[1]
        question_record ==
            [problem_id |-> Get(question_data, "problem_id", None),
             cluster_info |-> Get(question_data, "cluster_info", EmptyDict),
             user_answer |-> user_answer,
             profiling_score |-> [category |-> Get(classification, "category", None)],
             mastery_assessment |-> assessment]
            @@ (IF DOMAIN evaluation # {}
                THEN [evaluation |-> evaluation] ELSE EmptyDict)
        tracked == IF DOMAIN evaluation # {}
                   THEN track_weak_concepts(sd, evaluation) ELSE sd
        appended == [tracked EXCEPT !.questions_history =
                                        Append(@, question_record)]
    IN update_mastery_tracking(appended, question_data, evaluation, assessment)

\* the history of incoming scores after one more per key of `scores`
FedScores(history, scores) ==
    [k \in DOMAIN history \cup DOMAIN scores |->
        IF k \notin DOMAIN scores THEN history[k]
        ELSE IF k \notin DOMAIN history THEN << scores[k] >>
        ELSE Append(history[k], scores[k])]

\* the agent object, self
student_agent ==
    [session_data |-> session_data,
     profile |-> profile,
     user_data_file |-> user_data_file,
     incoming_scores |-> incoming_scores]

\* save_question_data on the agent: the record is appended, the trackers
\* are updated, profile["mastery_scores"] is bound to the tracking and the
\* session data is written
SavedQuestionData(self, question_data, user_answer, classification, evaluation, mastery_assessment) ==
    LET sd == SavedSessionData(self.session_data, question_data, user_answer,
                               classification, evaluation, mastery_assessment)
        assessment == IF Len(mastery_assessment) = 0
                      THEN DefaultMasteryAssessment
                      ELSE mastery_assessment[1]
        subtopic == SubtopicOf(question_data)
    IN [session_data |-> sd,
        profile |-> [self.profile EXCEPT !.mastery_scores = "mastery_tracking"],
        user_data_file |-> << sd >>,
        incoming_scores |->
            [subtopics |->
                 FedScores(self.incoming_scores.subtopics,
                           [k \in {subtopic} |->
                               Get(assessment, "subtopic_mastery", Zero)]),
             concepts |->
                 FedScores(self.incoming_scores.concepts,
                           Get(assessment, "concept_mastery", EmptyDict))]]

save_question_data(question_data, user_answer, classification, evaluation, mastery_assessment) ==
    LET after == SavedQuestionData(student_agent, question_data, user_answer,
                                   classification, evaluation,
                                   mastery_assessment)
    IN
    /\ session_data' = after.session_data
    /\ profile' = after.profile
    /\ user_data_file' = after.user_data_file
    /\ incoming_scores' = after.incoming_scores
    /\ ret' = [op |-> "save_question_data",
               subtopic |-> SubtopicOf(question_data)]
    /\ UNCHANGED <<agent_vars, picker_vars, tutor_state, catalog>>

\* the record reset_subtopic_mastery stores
ResetRecord ==
    [mastery_score |-> Zero, attempts |-> 0, mastery_achieved |-> FALSE]

\* a reset that keeps the weak concepts and the gaps
ResetKeepingWeakConcepts(self, subtopic) ==
    LET old == self.session_data.mastery_tracking
        sd == [self.session_data EXCEPT
                  !.mastery_tracking =
                      [concepts |-> EmptyDict,
                       subtopics |-> [k \in DOMAIN old.subtopics \cup {subtopic} |->
                                         IF k = subtopic THEN ResetRecord
                                         ELSE old.subtopics[k]],
                       overall_mastery |-> Zero]]
    IN [session_data |-> sd,
        profile |-> self.profile,
        user_data_file |-> << sd >>,
        incoming_scores |->
            [subtopics |-> [k \in DOMAIN self.incoming_scores.subtopics
                                     \cup {subtopic} |->
                               IF k = subtopic THEN <<>>
                               ELSE self.incoming_scores.subtopics[k]],
             concepts |-> EmptyDict]]

\* a reset that also starts the question history afresh
ResetClearingHistory(self, subtopic) ==
    LET old == self.session_data.mastery_tracking
        sd == [self.session_data EXCEPT
                  !.questions_history = <<>>,
                  !.mastery_tracking =
                      [concepts |-> EmptyDict,
                       subtopics |-> [k \in DOMAIN old.subtopics \cup {subtopic} |->
                                         IF k = subtopic THEN ResetRecord
                                         ELSE old.subtopics[k]],
                       overall_mastery |-> Zero],
                  !.weak_concepts = <<>>,
                  !.concept_gaps = <<>>]
    IN [session_data |-> sd,
        profile |-> self.profile,
        user_data_file |-> << sd >>,
        incoming_scores |->
            [subtopics |-> [k \in DOMAIN self.incoming_scores.subtopics
                                     \cup {subtopic} |->
                               IF k = subtopic THEN <<>>
                               ELSE self.incoming_scores.subtopics[k]],
             concepts |-> EmptyDict]]

\* reset_subtopic_mastery on the agent
ResetSubtopicMastery(self, subtopic) ==
    LET old == self.session_data.mastery_tracking
        sd == [self.session_data EXCEPT
                  !.mastery_tracking =
                      [concepts |-> EmptyDict,
                       subtopics |-> [k \in DOMAIN old.subtopics \cup {subtopic} |->
                                         IF k = subtopic THEN ResetRecord
                                         ELSE old.subtopics[k]],
                       overall_mastery |-> Zero],
                  !.weak_concepts = <<>>,
                  !.concept_gaps = <<>>]
    IN [session_data |-> sd,
        profile |-> self.profile,
        user_data_file |-> << sd >>,
        incoming_scores |->
            [subtopics |-> [k \in DOMAIN self.incoming_scores.subtopics
                                     \cup {subtopic} |->
                               IF k = subtopic THEN <<>>
                               ELSE self.incoming_scores.subtopics[k]],
             concepts |-> EmptyDict]]

reset_subtopic_mastery(subtopic) ==
    LET after == ResetSubtopicMastery(student_agent, subtopic)
    IN
    /\ session_data' = after.session_data
    /\ profile' = after.profile
    /\ user_data_file' = after.user_data_file
    /\ incoming_scores' = after.incoming_scores
    /\ ret' = [op |-> "reset_subtopic_mastery", subtopic |-> subtopic]
    /\ UNCHANGED <<agent_vars, picker_vars, tutor_state, catalog>>

(***************************************************************************)
(* QuestionPickerAgent, built as the session start builds it: with the     *)
(* tutor state that holds the topic and with the student agent.            *)
(***************************************************************************)
\* tutor_state["topic"] as the session start form sets it
topic ==
    <<"i", "n", "n", "e", "r", " ", "j", "o", "i", "n">>

\* the attempts the picker asks for before it moves on (line 145)
picker_min_attempts == 3

PickerInit ==
    /\ current_subtopic = <<>>
    /\ asked_problems = {}

\* the agent object, self
question_agent ==
    [current_subtopic |-> current_subtopic, asked_problems |-> asked_problems]

\* sub in s
Contains(sub, s) ==
    \E i \in 1..(Len(s) - Len(sub) + 1) : SubSeq(s, i, i + Len(sub) - 1) = sub

\* _get_problems_for_cluster
get_problems_for_cluster(cluster_id) ==
    SelectSeq(problems, LAMBDA p : p.cluster_id = cluster_id)

\* _get_clusters_for_subtopic: the cluster_info dicts of the subtopics whose
\* name is subtopic_name up to case
get_clusters_for_subtopic(subtopic_name) ==
    LET topics == knowledge_graph.topics
        OfSubtopic(t, s) ==
            IF Lower(s.subtopic_name) = Lower(subtopic_name)
            THEN [c \in DOMAIN s.clusters |->
                    [cluster_id |-> s.clusters[c].cluster_id,
                     complexity_level |-> s.clusters[c].complexity_level,
                     skills_tested |-> Get(s.clusters[c], "skills_tested", <<>>),
                     subtopic_name |-> s.subtopic_name,
                     topic_name |-> t.topic_name]]
            ELSE <<>>
    IN Flatten([t \in DOMAIN topics |->
                  Flatten([s \in DOMAIN topics[t].subtopics |->
                             OfSubtopic(topics[t], topics[t].subtopics[s])])])

\* a choice among all clusters, whatever the score
SelectAnyCluster(clusters, mastery_score) ==
    SeqRange(clusters)

\* _select_cluster_by_mastery: the clusters random.choice may return
select_cluster_by_mastery(clusters, mastery_score) ==
    LET Level(c) == Get(c, "complexity_level", 1)
        InBand(c) ==
            IF RatLt(mastery_score, <<2, 5>>) THEN Level(c) <= 2
            ELSE IF RatLt(mastery_score, <<3, 5>>) THEN 2 <= Level(c) /\ Level(c) <= 3
            ELSE IF RatLt(mastery_score, <<4, 5>>) THEN 3 <= Level(c) /\ Level(c) <= 4
            ELSE Level(c) >= 4
        target_clusters == {c \in SeqRange(clusters) : InBand(c)}
    IN IF target_clusters = {} THEN SeqRange(clusters) ELSE target_clusters

\* sorted(..., reverse=True) on integer keys, as the positions of the input
\* in their sorted order: a stable sort, equal keys keep their order
RECURSIVE SortedDesc(_, _)
SortedDesc(keys, remaining) ==
    IF remaining = {} THEN <<>>
    ELSE LET first == CHOOSE i \in remaining :
                         \A j \in remaining :
                            keys[j] < keys[i] \/ (keys[j] = keys[i] /\ i <= j)
         IN <<first>> \o SortedDesc(keys, remaining \ {first})

\* s[:n]
Take(s, n) ==
    SubSeq(s, 1, IF Len(s) < n THEN Len(s) ELSE n)

\* _extract_priority_concepts: list(set(priority)), as a set
extract_priority_concepts(weak_concepts, concept_gaps) ==
    LET ranked_weak == SortedDesc([i \in DOMAIN weak_concepts |->
                                      weak_concepts[i].occurrences],
                                  DOMAIN weak_concepts)
    IN {weak_concepts[i].concept : i \in SeqRange(Take(ranked_weak, 3))}
       \cup SeqRange(Take(concept_gaps, 3))

\* the coverage score of a cluster
CoverageScore(cluster, priority_concepts) ==
    Cardinality({concept \in priority_concepts :
                    \E k \in DOMAIN cluster.skills_tested :
                       LET skill == cluster.skills_tested[k]
                       IN \/ Contains(Lower(concept), Lower(skill))
                          \/ Contains(Lower(skill), Lower(concept))})

\* _select_cluster_by_concept_coverage: the clusters it may return
select_cluster_by_concept_coverage(clusters, mastery_score, priority_concepts) ==
    LET Key(i) == << CoverageScore(clusters[i], priority_concepts),
                     Len(clusters[i].skills_tested) >>
        Less(a, b) == a[1] < b[1] \/ (a[1] = b[1] /\ a[2] < b[2])
        best == CHOOSE i \in DOMAIN clusters :
                   \A j \in DOMAIN clusters :
                      Less(Key(j), Key(i)) \/ (Key(j) = Key(i) /\ i <= j)
    IN IF priority_concepts # {} /\ Key(best)[1] > 0
       THEN {clusters[best]}
       ELSE select_cluster_by_mastery(clusters, mastery_score)

\* a call of _select_cluster_by_concept_coverage: None (<<>>) for no
\* clusters, else one of the clusters it may return
select_cluster(clusters, mastery_score, priority_concepts) ==
    /\ \E selected \in
            (IF clusters = <<>> THEN {<<>>}
             ELSE {<<c>> : c \in select_cluster_by_concept_coverage(
                                     clusters, mastery_score, priority_concepts)}) :
          ret' = [op |-> "select_cluster_by_concept_coverage",
                  clusters |-> clusters,
                  mastery_score |-> mastery_score,
                  priority_concepts |-> priority_concepts,
                  selected |-> selected]
    /\ UNCHANGED <<agent_vars, student_vars, picker_vars, tutor_state, catalog>>

\* _select_problem_by_concept_richness: the problems it may return
select_problem_by_concept_richness(available, priority_concepts, cluster) ==
    LET Summary(p) == Lower(Get(p, "brief_summary", <<>>))
        Score(p) ==
            Cardinality({c \in priority_concepts : Contains(Lower(c), Summary(p))}) * 3
            + Cardinality({k \in DOMAIN cluster.skills_tested :
                              Contains(Lower(cluster.skills_tested[k]), Summary(p))})
        order == SortedDesc([i \in DOMAIN available |-> Score(available[i])],
                            DOMAIN available)
    IN IF priority_concepts = {} THEN SeqRange(available)
       ELSE {available[i] : i \in SeqRange(Take(order, 3))}

\* the first subtopic of the graph, mastered or not
FirstSubtopic(subtopic_mastery) ==
    Take([i \in DOMAIN GraphSubtopics |-> GraphSubtopics[i].subtopic_name], 1)

\* _get_next_subtopic: <<>> is None, <<name>> the first unmastered subtopic
get_next_subtopic(subtopic_mastery) ==
    LET all_subtopics == [i \in DOMAIN GraphSubtopics |->
                             GraphSubtopics[i].subtopic_name]
        Unmastered(name) ==
            LET subtopic_data == Get(subtopic_mastery, name, EmptyDict)
            IN /\ ~Get(subtopic_data, "mastery_achieved", FALSE)
               /\ RatLt(Get(subtopic_data, "mastery_score", Zero), mastery_threshold)
        unmastered == SelectSeq(all_subtopics, Unmastered)
    IN Take(unmastered, 1)

\* the unasked problems only, with no way back to the asked ones
UnaskedProblems(all, asked) ==
    SelectSeq(all, LAMBDA p : p.problem_id \notin asked)

\* available_problems of get_next_question (lines 181-186): the problems of
\* the cluster not asked yet, all of them when every one has been asked
AvailableProblems(all, asked) ==
    LET unasked == SelectSeq(all, LAMBDA p : p.problem_id \notin asked)
    IN IF unasked = <<>> THEN all ELSE unasked

\* what get_next_question(student_profile) may do: for each outcome of its
\* random choices, the picker's fields, the student agent it may have reset,
\* the returned payload and whether the current subtopic moved on
GetNextQuestion(self, student, student_profile) ==
    LET user_topic == topic
        mastery_scores == Get(student_profile, "mastery_scores", EmptyDict)
        mastery_tracking ==
            IF "subtopics" \in DOMAIN mastery_scores THEN mastery_scores
            ELSE [subtopics |-> EmptyDict, overall_mastery |-> Zero]
        subtopic_mastery == Get(mastery_tracking, "subtopics", EmptyDict)
        priority_concepts ==
            extract_priority_concepts(Get(student_profile, "weak_concepts", <<>>),
                                      Get(student_profile, "concept_gaps", <<>>))
        \* lines 122-125
        current == IF self.current_subtopic = <<>> THEN user_topic
                   ELSE self.current_subtopic[1]
        asked == IF self.current_subtopic = <<>> THEN {}
                 ELSE self.asked_problems
        \* lines 128-132; the keys are names of the graph, or 'Unknown', so
        \* at most one key matches
        matching == {k \in DOMAIN subtopic_mastery : Lower(k) = Lower(current)}
        current_subtopic_data ==
            IF matching = {} THEN EmptyDict
            ELSE subtopic_mastery[CHOOSE k \in matching : TRUE]
        current_mastery_score == Get(current_subtopic_data, "mastery_score", Zero)
        mastery_achieved == Get(current_subtopic_data, "mastery_achieved", FALSE)
        attempts == Get(current_subtopic_data, "attempts", 0)
        next_subtopic == get_next_subtopic(subtopic_mastery)
        Outcome(subtopic, asked_now, student_now, payload, moved, repeats) ==
            [current_subtopic |-> << subtopic >>,
             asked_problems |-> asked_now,
             student |-> student_now,
             payload |-> payload,
             moved |-> moved,
             repeats |-> repeats]
        \* lines 166-209
        Serve(subtopic, asked_now, student_now, moved) ==
            LET available_clusters == get_clusters_for_subtopic(subtopic)
                OfCluster(selected_cluster) ==
                    LET all == get_problems_for_cluster(selected_cluster.cluster_id)
                        available_problems == AvailableProblems(all, asked_now)
                        \* the notice "All problems in cluster used,
                        \* allowing repeats" has been printed
                        repeats == UnaskedProblems(all, asked_now) = <<>>
                    IN IF available_problems = <<>>
                       THEN {Outcome(subtopic, asked_now, student_now,
                                     [completed |-> TRUE,
                                      message |-> "No problems available"],
                                     moved, repeats)}
                       ELSE {Outcome(subtopic,
                                     asked_now \cup {selected_problem.problem_id},
                                     student_now,
                                     [completed |-> FALSE,
                                      cluster_info |-> selected_cluster,
                                      problem_id |-> selected_problem.problem_id],
                                     moved, repeats) :
                               selected_problem \in
                                   select_problem_by_concept_richness(
                                       available_problems, priority_concepts,
                                       selected_cluster)}
            IN IF available_clusters = <<>>
               THEN {Outcome(subtopic, asked_now, student_now,
                             [completed |-> TRUE, message |-> "No clusters found"],
                             moved, FALSE)}
               ELSE UNION {OfCluster(c) :
                             c \in select_cluster_by_concept_coverage(
                                       available_clusters, current_mastery_score,
                                       priority_concepts)}
    IN
    IF mastery_achieved /\ attempts >= picker_min_attempts
    THEN IF next_subtopic # <<>>
         THEN Serve(next_subtopic[1], {},
                    ResetSubtopicMastery(student, next_subtopic[1]), TRUE)
         ELSE {Outcome(current, asked, student,
                       [completed |-> TRUE, message |-> "All subtopics mastered"],
                       FALSE, FALSE)}
    ELSE Serve(current, asked, student, FALSE)

get_next_question(student_profile) ==
    \E out \in GetNextQuestion(question_agent, student_agent, student_profile) :
        /\ current_subtopic' = out.current_subtopic
        /\ asked_problems' = out.asked_problems
        /\ session_data' = out.student.session_data
        /\ profile' = out.student.profile
        /\ user_data_file' = out.student.user_data_file
        /\ incoming_scores' = out.student.incoming_scores
        /\ ret' = [op |-> "get_next_question",
                   payload |-> out.payload,
                   moved |-> out.moved,
                   repeats |-> out.repeats]
        /\ UNCHANGED <<agent_vars, tutor_state, catalog>>

(***************************************************************************)
(* The mastery agent under any sequence of calls.                          *)
(***************************************************************************)
\* the questions handed to record_attempt: the console session's, without
\* subtopic_id (here also without problem_id and concepts), and the web
\* session's, whose subtopic_id is the first subtopic
AgentQuestions ==
    {EmptyDict,
     [problem_id |-> "p1", concepts |-> <<Join>>,
      subtopic_id |-> subtopic_sequence[1].subtopic_id]}

Select ==
    <<"S", "E", "L", "E", "C", "T">>

\* the evaluations handed to record_attempt, None as the empty dict
AgentEvaluations ==
    {EmptyDict, [is_correct |-> TRUE], [is_correct |-> FALSE]}

\* st.session_state as the script initialises it (app.py lines 15-25), a
\* topic of None as <<>>
TutorInit ==
    tutor_state = [user_id |-> None,
                   topic |-> <<>>,
                   session_started |-> FALSE,
                   current_question |-> EmptyDict,
                   question_count |-> 0,
                   agents |-> {}]

Init ==
    /\ catalog = [knowledge_graph |-> "full", problems |-> "full"]
    /\ AgentInit
    /\ StudentInit
    /\ PickerInit
    /\ TutorInit
    /\ ret = [op |-> "init"]

Next ==
    \/ /\ TotalAttempts < MaxAttempts
       /\ \E q \in AgentQuestions, ev \in AgentEvaluations,
             ca \in {<<>>, Lower(Select)} :
             record_attempt(q, Select, ca, ev)
    \/ /\ Len(problem_assessments) < MaxAssessments
       /\ \E o \in EstimatorOutcomes : assess_mastery_with_llm(o)
    \/ advance_to_next_subtopic

Spec ==
    Init /\ [][Next]_vars

(***************************************************************************)
(* The learner walking the subtopic sequence: the console session's        *)
(* questions, an estimator that answers.                                   *)
(***************************************************************************)
WalkNext ==
    \/ /\ TotalAttempts < MaxWalkAttempts
       /\ \E ev \in {[is_correct |-> TRUE], [is_correct |-> FALSE]} :
             record_attempt(EmptyDict, Select, <<>>, ev)
    \/ /\ Len(problem_assessments) < MaxWalkAssessments
       /\ \E o \in {x \in EstimatorOutcomes :
                       /\ x.kind = "answer"
                       /\ "mastery_probability" \in DOMAIN x.response
                       /\ "mastery_achieved" \notin DOMAIN x.response} :
             assess_mastery_with_llm(o)
    \/ advance_to_next_subtopic

SpecWalk ==
    Init /\ [][WalkNext]_vars

(***************************************************************************)
(* The student agent and the question picker under any sequence of calls.  *)
(***************************************************************************)
\* the payload get_next_question returns for a problem of the bank
QuestionPayload(problem_id) ==
    LET p == CHOOSE x \in SeqRange(problems) : x.problem_id = problem_id
        clusters == Flatten([i \in DOMAIN GraphSubtopics |->
                        get_clusters_for_subtopic(GraphSubtopics[i].subtopic_name)])
        c == CHOOSE x \in SeqRange(clusters) : x.cluster_id = p.cluster_id
    IN [completed |-> FALSE, cluster_info |-> c, problem_id |-> problem_id]

\* what _grade_sql_answer returns for a right and for a wrong answer
CorrectEvaluation ==
    [score |-> 100, is_correct |-> TRUE,
     feedback |-> "Correct.", explanation |-> "Matches.",
     weak_concepts |-> <<>>, missing_concepts |-> <<>>,
     concept_understanding |-> EmptyDict]

WrongEvaluation ==
    [score |-> 20, is_correct |-> FALSE,
     feedback |-> "Wrong.", explanation |-> "The condition is missing.",
     weak_concepts |-> <<Join>>, missing_concepts |-> <<OnClause>>,
     concept_understanding |-> EmptyDict]

\* the submit handler's completion of the assessment before it is saved
\* (app.py lines 250-256)
WebMasteryAssessment(mastery_assessment, cluster_info, evaluation) ==
    LET skills_tested == Get(cluster_info, "skills_tested", <<>>)
        accuracy == Rat(Get(evaluation, "score", 0), 100)
        concept_mastery ==
            IF "concept_mastery" \in DOMAIN mastery_assessment THEN EmptyDict
            ELSE [concept_mastery |->
                     [skill \in SeqRange(skills_tested) |-> accuracy]]
        subtopic_mastery ==
            IF "subtopic_mastery" \in DOMAIN mastery_assessment THEN EmptyDict
            ELSE [subtopic_mastery |->
                     Get(mastery_assessment, "mastery_probability", Zero)]
    IN mastery_assessment @@ concept_mastery @@ subtopic_mastery

\* what assess_mastery_with_llm returns when the estimator answered r
Answered(r) ==
    [mastery_achieved |-> EngineMasteryFlag(r, r.mastery_probability)] @@ r

\* the turns whose results are saved: the evaluation of the answer and the
\* assessment that assess_mastery_with_llm returned for it (an estimate at
\* the threshold or one below it)
SavedTurns ==
    { [evaluation |-> CorrectEvaluation,
       assessment |-> Answered([mastery_probability |-> <<4, 5>>])],
      [evaluation |-> WrongEvaluation,
       assessment |-> Answered([mastery_probability |-> <<1, 2>>,
                                confidence_level |-> "high"])] }

\* StudentProfileAgent(user_id, topic) where the user's data file exists
LoadedStudentAgent(self) ==
    [session_data |-> self.user_data_file[1],
     profile |-> NewProfile,
     user_data_file |-> self.user_data_file,
     incoming_scores |-> self.incoming_scores]

\* a new session of the same user: the student agent and the question
\* picker are built again (app.py lines 51-55)
new_agents ==
    /\ session_data' = LoadedStudentAgent(student_agent).session_data
    /\ profile' = LoadedStudentAgent(student_agent).profile
    /\ current_subtopic' = <<>>
    /\ asked_problems' = {}
    /\ ret' = [op |-> "new_agents"]
    /\ UNCHANGED <<agent_vars, user_data_file, incoming_scores, tutor_state, catalog>>

ProfileQuestions ==
    {QuestionPayload(id) : id \in {"p1", "p4"}}

ProfileNext ==
    \/ /\ Len(session_data.questions_history) < MaxSaves
       /\ \E q \in ProfileQuestions, t \in SavedTurns :
             save_question_data(q, Select, [category |-> "medium"], t.evaluation,
                                << WebMasteryAssessment(t.assessment,
                                                        q.cluster_info,
                                                        t.evaluation) >>)
    \/ get_next_question(get_profile(session_data, profile))
    \/ new_agents

SpecProfile ==
    Init /\ [][ProfileNext]_vars

(***************************************************************************)
(* The tracking of one subtopic under any sequence of saves, resets and    *)
(* picks.                                                                  *)
(***************************************************************************)
\* the question of the tracked subtopic
TrackedQuestion ==
    QuestionPayload("p1")

TrackingNext ==
    \/ /\ Len(session_data.questions_history) < MaxTrackedSaves
       /\ \E t \in SavedTurns :
             save_question_data(TrackedQuestion, Select, [category |-> "medium"],
                                t.evaluation,
                                << WebMasteryAssessment(t.assessment,
                                                        TrackedQuestion.cluster_info,
                                                        t.evaluation) >>)
    \/ \E i \in DOMAIN GraphSubtopics :
          reset_subtopic_mastery(GraphSubtopics[i].subtopic_name)
    \/ get_next_question(get_profile(session_data, profile))

SpecTracking ==
    Init /\ [][TrackingNext]_vars

(***************************************************************************)
(* The running means under any sequence of saves and resets.               *)
(***************************************************************************)
PartialEvaluation ==
    [WrongEvaluation EXCEPT !.score = 60]

\* turns with the estimates 0.2, 0.6 and 1.0
MeanTurns ==
    { [evaluation |-> WrongEvaluation,
       assessment |-> Answered([mastery_probability |-> <<1, 5>>])],
      [evaluation |-> PartialEvaluation,
       assessment |-> Answered([mastery_probability |-> <<3, 5>>])],
      [evaluation |-> CorrectEvaluation,
       assessment |-> Answered([mastery_probability |-> <<1, 1>>])] }

MeanNext ==
    \/ /\ Len(session_data.questions_history) < MaxMeanSaves
       /\ \E t \in MeanTurns :
             save_question_data(TrackedQuestion, Select, [category |-> "medium"],
                                t.evaluation,
                                << WebMasteryAssessment(t.assessment,
                                                        TrackedQuestion.cluster_info,
                                                        t.evaluation) >>)
    \/ \E i \in DOMAIN GraphSubtopics :
          reset_subtopic_mastery(GraphSubtopics[i].subtopic_name)

SpecMean ==
    Init /\ [][MeanNext]_vars

(***************************************************************************)
(* The weak-concept tracker under any sequence of saves and resets.        *)
(***************************************************************************)
\* what the grader may report: nothing, one concept, a concept twice, two
\* concepts; for a correct answer nothing
WeakEvaluations ==
    {[WrongEvaluation EXCEPT !.weak_concepts = w, !.missing_concepts = m] :
        w \in {<<>>, <<Join>>, <<Join, Join>>, <<OnClause, Join>>},
        m \in {<<>>, <<Alias>>, <<Alias, Join, Alias>>}}
    \cup {CorrectEvaluation}

\* saves without a mastery assessment; save_question_data may also be given
\* no evaluation
WeakNext ==
    \/ /\ Len(session_data.questions_history) < MaxWeakSaves
       /\ \E evaluation \in WeakEvaluations \cup {EmptyDict} :
             save_question_data(TrackedQuestion, Select, [category |-> "medium"],
                                evaluation, <<>>)
    \/ reset_subtopic_mastery(InnerJoin)

SpecWeak ==
    Init /\ [][WeakNext]_vars

(***************************************************************************)
(* The mastery agent, the student agent and the question picker called in  *)
(* any order.                                                              *)
(***************************************************************************)
LedgerNext ==
    \/ /\ TotalAttempts + Len(problem_assessments)
            + Len(session_data.questions_history) < MaxLedgerCalls
       /\ \E q \in AgentQuestions,
             ev \in {[is_correct |-> TRUE], [is_correct |-> FALSE]} :
             record_attempt(q, Select, <<>>, ev)
    \/ /\ TotalAttempts + Len(problem_assessments)
            + Len(session_data.questions_history) < MaxLedgerCalls
       /\ \E o \in {x \in EstimatorOutcomes :
                       /\ x.kind = "answer"
                       /\ x.response = [mastery_probability |-> <<4, 5>>]} :
             assess_mastery_with_llm(o)
    \/ /\ TotalAttempts + Len(problem_assessments)
            + Len(session_data.questions_history) < MaxLedgerCalls
       /\ \E t \in SavedTurns :
             save_question_data(TrackedQuestion, Select,
                                [category |-> "medium"], t.evaluation,
                                << WebMasteryAssessment(t.assessment,
                                                        TrackedQuestion.cluster_info,
                                                        t.evaluation) >>)
    \/ \E o \in {x \in EstimatorOutcomes : x.kind = "invoke_error"} :
          assess_mastery_with_llm(o)
    \/ advance_to_next_subtopic
    \/ reset_subtopic_mastery(InnerJoin)
    \/ get_next_question(get_profile(session_data, profile))

SpecLedger ==
    Init /\ [][LedgerNext]_vars

(***************************************************************************)
(* The selection of a cluster for any clusters, score and concepts.        *)
(***************************************************************************)
\* a cluster_info of the given complexity
ClusterOfLevel(level) ==
    [cluster_id |-> "k" \o ToString(level),
     complexity_level |-> level,
     skills_tested |-> <<Join>>,
     subtopic_name |-> InnerJoin,
     topic_name |-> "SQL Joins"]

\* a cluster_info of the given complexity that tests two skills
RichClusterOfLevel(level) ==
    [cluster_id |-> "r" \o ToString(level),
     complexity_level |-> level,
     skills_tested |-> <<Join, Alias>>,
     subtopic_name |-> InnerJoin,
     topic_name |-> "SQL Joins"]

\* the clusters of a subtopic: none, one, two of different complexity, or
\* two of which one tests more skills, in either order
SelectableClusters ==
    {<<>>}
    \cup {<<ClusterOfLevel(a)>> : a \in 1..5}
    \cup {<<ClusterOfLevel(p[1]), ClusterOfLevel(p[2])>> :
             p \in {q \in (1..5) \X (1..5) : q[1] # q[2]}}
    \cup {<<ClusterOfLevel(p[1]), RichClusterOfLevel(p[2])>> :
             p \in {1, 4} \X {1, 4}}
    \cup {<<RichClusterOfLevel(p[1]), ClusterOfLevel(p[2])>> :
             p \in {1, 4} \X {1, 4}}

\* running scores in every band and on every border of a band
SelectionScores ==
    {Zero, <<7, 20>>, <<2, 5>>, <<1, 2>>, <<3, 5>>, <<7, 10>>, <<4, 5>>,
     <<1, 1>>}

\* no priority concept, one no cluster covers, one every cluster covers,
\* one some clusters cover, and two of them
SelectionConcepts ==
    {{}, {Null}, {Join}, {Alias}, {Null, Alias}}

\* one call on the agent as it was built: the call changes no state of the
\* agent
SelectNext ==
    /\ ret.op = "init"
    /\ \E clusters \in SelectableClusters, mastery_score \in SelectionScores,
          priority_concepts \in SelectionConcepts :
          select_cluster(clusters, mastery_score, priority_concepts)

SpecSelect ==
    Init /\ [][SelectNext]_vars

(***************************************************************************)
(* The grading of any answer.                                              *)
(***************************************************************************)
\* question_for_grading of the submit handler (app.py lines 220-224)
question_for_grading(question_data) ==
    [problem_id |-> Get(question_data, "problem_id", None),
     cluster_info |-> Get(question_data, "cluster_info", EmptyDict)]

\* answers: none, the phrases in lower, upper and mixed case, phrases with
\* a blank before or after, and queries
GradedAnswers ==
    {<<>>, IDontKnow, Idk, Skip, DontKnow, IDoNotKnow,
     <<"I", "D", "K">>, <<"S", "k", "i", "p">>,
     <<"I", " ", "D", "O", "N", "'", "T", " ", "K", "N", "O", "W">>,
     <<" ", "i", "d", "k">>, <<"s", "k", "i", "p", " ">>, <<" ">>,
     <<"i", " ", "d", "o", "n", "t">>, Select}

\* one call on the agent as it was built: the call changes no state of the
\* agent, so that a second call meets what the first one met
GradeNext ==
    /\ ret.op = "init"
    /\ \E user_answer \in GradedAnswers, outcome \in GraderOutcomes :
          grade_sql_answer(question_for_grading(TrackedQuestion), user_answer,
                           outcome)

SpecGrade ==
    Init /\ [][GradeNext]_vars

(***************************************************************************)
(* The session: the start of the web session and of the console session,   *)
(* and the turns of the web session.                                       *)
(***************************************************************************)
\* config.default_difficulty
default_difficulty == "easy"

\* difficulty_map of generate_initial_question
difficulty_map ==
    [easy |-> 1, medium |-> 2, hard |-> 4]

\* generate_initial_question: the payloads it may return
GenerateInitialQuestion ==
    LET target_complexity == IF default_difficulty \in DOMAIN difficulty_map
                             THEN difficulty_map[default_difficulty] ELSE 1
        user_topic == topic
        matching_clusters ==
            SelectSeq(get_clusters_for_subtopic(user_topic),
                      LAMBDA c : c.complexity_level = target_complexity)
        OfCluster(selected_cluster) ==
            LET all == get_problems_for_cluster(selected_cluster.cluster_id)
            IN IF all = <<>>
               THEN {[completed |-> TRUE,
                      message |-> "No problems available for cluster"]}
               ELSE {[completed |-> FALSE,
                      cluster_info |-> selected_cluster,
                      problem_id |-> selected_problem.problem_id] :
                        selected_problem \in SeqRange(all)}
    IN IF user_topic = <<>>
       THEN {[completed |-> TRUE, message |-> "No topic specified"]}
       ELSE IF matching_clusters = <<>>
       THEN {[completed |-> TRUE, message |-> "No clusters found for topic"]}
       ELSE UNION {OfCluster(c) : c \in SeqRange(matching_clusters)}

\* the three agents the web session stores in st.session_state
SessionAgents ==
    {"student_agent", "question_agent", "mastery_agent"}

\* StudentProfileAgent(user_id, topic) for a user without a data file
NewStudentAgent ==
    [session_data |-> NewSessionData,
     profile |-> NewProfile,
     user_data_file |-> << NewSessionData >>,
     incoming_scores |-> NoScores]

\* KnowledgeGraphMasteryAgent(...): a state for every subtopic of the
\* sequence, the current subtopic the first of the sequence or None
NewMasteryAgent ==
    [subtopic_mastery_states |-> [s \in SubtopicIds |-> NewSubtopicMasteryState],
     current_subtopic_index |-> 0,
     current_subtopic_id |-> IF subtopic_sequence # <<>>
                             THEN subtopic_sequence[1].subtopic_id ELSE None,
     problem_assessments |-> <<>>]

\* the user ids typed into the start form
UserIds ==
    {"", "student1"}

\* before any session has started: the script has initialised
\* st.session_state, no agent is built, no file of the user exists; the
\* catalog files are absent or hold one of their variants
SessionInit ==
    /\ catalog \in [knowledge_graph : GraphVariants \cup {"absent"},
                    problems : BankVariants \cup {"absent"}]
    /\ subtopic_mastery_states = EmptyDict
    /\ current_subtopic_index = 0
    /\ current_subtopic_id = None
    /\ problem_assessments = <<>>
    /\ user_progress_file = <<>>
    /\ session_data = EmptyDict
    /\ profile = EmptyDict
    /\ user_data_file = <<>>
    /\ incoming_scores = NoScores
    /\ PickerInit
    /\ TutorInit
    /\ ret = [op |-> "init"]

\* the start form's handler (app.py lines 45-70) for a user without a data
\* file.  QuestionPickerAgent.__init__ opens both catalog files and raises
\* FileNotFoundError for an absent one; nothing catches it
start_session(user_id) ==
    /\ ~tutor_state.session_started
    /\ IF user_id = ""
       THEN /\ ret' = [op |-> "start_session", outcome |-> "invalid user id"]
            /\ UNCHANGED <<agent_vars, student_vars, picker_vars, tutor_state,
                           catalog>>
       ELSE LET started == [tutor_state EXCEPT !.user_id = user_id,
                                               !.topic = topic,
                                               !.session_started = TRUE,
                                               !.agents = {"student_agent"}]
            IN /\ session_data' = NewStudentAgent.session_data
               /\ profile' = NewStudentAgent.profile
               /\ user_data_file' = NewStudentAgent.user_data_file
               /\ incoming_scores' = NewStudentAgent.incoming_scores
               /\ IF "absent" \in {catalog.knowledge_graph, catalog.problems}
                  THEN /\ tutor_state' = started
                       /\ ret' = [op |-> "start_session",
                                  outcome |-> "FileNotFoundError"]
                       /\ UNCHANGED <<agent_vars, picker_vars, catalog>>
                  ELSE /\ current_subtopic' = <<>>
                       /\ asked_problems' = {}
                       /\ subtopic_mastery_states' =
                              NewMasteryAgent.subtopic_mastery_states
                       /\ current_subtopic_index' =
                              NewMasteryAgent.current_subtopic_index
                       /\ current_subtopic_id' = NewMasteryAgent.current_subtopic_id
                       /\ problem_assessments' = NewMasteryAgent.problem_assessments
                       /\ \E question_data \in GenerateInitialQuestion :
                             tutor_state' =
                                 [started EXCEPT !.agents = SessionAgents,
                                                 !.current_question = question_data]
                       /\ ret' = [op |-> "start_session", outcome |-> "started"]
                       /\ UNCHANGED <<user_progress_file, catalog>>

\* the start of run_learning_session (mastery_agent.py lines 627-660): the
\* agent is built, with {} and [] for absent files, and the session returns
\* with a warning, dropping the agent, unless problems, graph and subtopics
\* are there
run_learning_session(user_id) ==
    /\ ret.op = "init"
    /\ IF problems = <<>>
       THEN /\ ret' = [op |-> "run_learning_session",
                       outcome |-> "No problems loaded"]
            /\ UNCHANGED agent_vars
       ELSE IF knowledge_graph = <<>>
       THEN /\ ret' = [op |-> "run_learning_session",
                       outcome |-> "No knowledge graph loaded"]
            /\ UNCHANGED agent_vars
       ELSE IF subtopic_sequence = <<>>
       THEN /\ ret' = [op |-> "run_learning_session",
                       outcome |-> "No subtopics found"]
            /\ UNCHANGED agent_vars
       ELSE /\ subtopic_mastery_states' = NewMasteryAgent.subtopic_mastery_states
            /\ current_subtopic_index' = NewMasteryAgent.current_subtopic_index
            /\ current_subtopic_id' = NewMasteryAgent.current_subtopic_id
            /\ problem_assessments' = NewMasteryAgent.problem_assessments
            /\ user_progress_file' = user_progress_file
            /\ ret' = [op |-> "run_learning_session", outcome |-> "loaded"]
    /\ UNCHANGED <<student_vars, picker_vars, tutor_state, catalog>>

\* what the grader, the classifier and the estimator do in a turn of the
\* web session
SessionGraderOutcomes ==
    {[kind |-> "answer", response |-> CorrectEvaluation],
     [kind |-> "answer", response |-> WrongEvaluation]}

SessionClassifications ==
    {[category |-> "medium"]}

SessionEstimatorOutcomes ==
    {[kind |-> "answer", response |-> [mastery_probability |-> <<4, 5>>]],
     [kind |-> "answer", response |-> [mastery_probability |-> <<1, 2>>]],
     [kind |-> "invoke_error", response |-> EmptyDict]}

\* the calls in the order the data-flow summary gives them: the tracker is
\* updated before the estimator is called
TurnCallsTrackerFirst(moved) ==
    <<"classify_student", "_grade_sql_answer", "record_attempt",
      "save_question_data", "_track_weak_concepts", "_update_mastery_tracking",
      "_save_user_data", "assess_mastery_with_llm", "get_profile",
      "get_next_question">>
    \o (IF moved THEN <<"reset_subtopic_mastery">> ELSE <<>>)

\* the calls of a turn in the order the submit handler makes them (app.py
\* lines 213, 225, 240, 248, 259, 366, 367), with the calls made by
\* save_question_data (student_profile.py lines 105-112) and the reset made
\* by a get_next_question call that moves on (question_picker.py line 152)
TurnCalls(moved) ==
    <<"classify_student", "_grade_sql_answer", "record_attempt",
      "assess_mastery_with_llm", "save_question_data", "_track_weak_concepts",
      "_update_mastery_tracking", "_save_user_data", "get_profile",
      "get_next_question">>
    \o (IF moved THEN <<"reset_subtopic_mastery">> ELSE <<>>)

\* the submit handler (app.py lines 208-371) for a non-empty answer: the
\* answer is classified and graded, the attempt recorded, the mastery
\* assessed, the turn saved, and the next question picked
submit_answer(user_answer, classification, grader, estimator) ==
    LET question_data == tutor_state.current_question
        cluster_info == Get(question_data, "cluster_info", EmptyDict)
        classified == [student_agent EXCEPT !.profile.category =
                          Get(classification, "category", @)]
        evaluation == GradeSqlAnswer(question_for_grading(question_data),
                                     user_answer, grader).result
        question_record ==
            [problem_id |-> Get(question_data, "problem_id", None),
             concepts |-> Get(cluster_info, "skills_tested", <<>>),
             subtopic_id |-> current_subtopic_id]
        recorded == [mastery_agent EXCEPT !.subtopic_mastery_states =
                        RecordedStates(mastery_agent, question_record,
                                       user_answer, <<>>, evaluation)]
        assessed == AssessOutcome(recorded, user_progress_file, estimator)
        mastery_assessment ==
            WebMasteryAssessment(assessed.result, cluster_info, evaluation)
        saved == SavedQuestionData(classified, question_data, user_answer,
                                   classification, evaluation,
                                   << mastery_assessment >>)
    IN
    /\ tutor_state.session_started
    /\ tutor_state.agents = SessionAgents
    /\ question_data # EmptyDict
    /\ ~question_data.completed
    /\ user_answer # <<>>
    /\ tutor_state.question_count < MaxTurns
    /\ subtopic_mastery_states' = assessed.states
    /\ problem_assessments' = assessed.assessments
    /\ user_progress_file' = assessed.file
    /\ UNCHANGED <<current_subtopic_index, current_subtopic_id, catalog>>
    /\ \E out \in GetNextQuestion(question_agent, saved,
                                  get_profile(saved.session_data, saved.profile)) :
          /\ current_subtopic' = out.current_subtopic
          /\ asked_problems' = out.asked_problems
          /\ session_data' = out.student.session_data
          /\ profile' = out.student.profile
          /\ user_data_file' = out.student.user_data_file
          /\ incoming_scores' = out.student.incoming_scores
          /\ tutor_state' = [tutor_state EXCEPT
                                !.question_count = @ + 1,
                                !.current_question = out.payload]
          /\ ret' = [op |-> "submit_answer",
                     grader |-> grader.kind,
                     calls |-> TurnCalls(out.moved),
                     evaluation |-> evaluation,
                     assessment |-> assessed.result,
                     payload |-> out.payload,
                     moved |-> out.moved,
                     repeats |-> out.repeats]

SessionNext ==
    \/ \E user_id \in UserIds : start_session(user_id)
    \/ \E user_id \in UserIds : run_learning_session(user_id)
    \/ \E classification \in SessionClassifications,
          grader \in SessionGraderOutcomes,
          estimator \in SessionEstimatorOutcomes :
          submit_answer(Select, classification, grader, estimator)

SpecSession ==
    SessionInit /\ [][SessionNext]_vars

(***************************************************************************)
(* The turns of one web session over a catalog with problems for every     *)
(* cluster, with a grader that may fail.                                   *)
(***************************************************************************)
TurnsInit ==
    /\ SessionInit
    /\ catalog.knowledge_graph \in {"full", "wide"}
    /\ catalog.problems = "full"

\* the learner starts a session and submits answers; the grader finds the
\* answer wrong or raises, the estimator answers 0.8 or raises
TurnsNext ==
    \/ start_session("student1")
    \/ \E classification \in SessionClassifications,
          grader \in {[kind |-> "answer", response |-> WrongEvaluation],
                      [kind |-> "raise", response |-> EmptyDict]},
          estimator \in {[kind |-> "answer",
                          response |-> [mastery_probability |-> <<4, 5>>]],
                         [kind |-> "invoke_error", response |-> EmptyDict]} :
          submit_answer(Select, classification, grader, estimator)

SpecTurns ==
    TurnsInit /\ [][TurnsNext]_vars

(***************************************************************************)
(* Claims about the mastery agent.                                         *)
(***************************************************************************)
StateOf(s) ==
    subtopic_mastery_states[s]

\* C1: after any sequence of record_attempt, assess_mastery_with_llm and
\* advance_to_next_subtopic calls, every subtopic with total_attempts < 3 has
\* mastery_achieved = FALSE, whatever its mastery_probability.
C1_NoMasteryBelowFloor ==
    \A s \in SubtopicIds :
        StateOf(s).total_attempts < min_attempts => ~StateOf(s).mastery_achieved

\* C5: with subtopics A, B, C, when the learner masters A the cursor moves to
\* B, and completed_at of every subtopic is written at most once over any
\* sequence of advance_to_next_subtopic calls (completed_at holds the ordinal
\* of its last write).
C5_CompletedAtOnce ==
    /\ (ret.op = "advance_to_next_subtopic" /\ ret.completed = "A")
           => (current_subtopic_id = "B" /\ current_subtopic_index = 1)
    /\ \A s \in SubtopicIds : StateOf(s).completed_at <= 1

\* C7: when the estimator call or the preparation of its context raises (and
\* at least one attempt is recorded), assess_mastery_with_llm returns
\* mastery_probability = (correct_attempts / total_attempts) * 0.8,
\* confidence_level 'low' and mastery_achieved False.
C7_FallbackEstimate ==
    (ret.op = "assess_mastery_with_llm" /\ ret.raised # "none")
        => LET st == StateOf(current_subtopic_id)
           IN /\ st.total_attempts >= 1
              /\ ret.result.mastery_probability =
                     Rat(4 * st.correct_attempts, 5 * st.total_attempts)
              /\ ret.result.confidence_level = "low"
              /\ ret.result.mastery_achieved = FALSE

\* C7 witness: the estimator raised with one of two attempts correct
C7_Witness ==
    /\ ret.op = "assess_mastery_with_llm"
    /\ ret.raised \in {"context", "estimator"}
    /\ StateOf(current_subtopic_id).total_attempts = 2
    /\ StateOf(current_subtopic_id).correct_attempts = 1
    /\ ret.result.mastery_probability = <<2, 5>>

(***************************************************************************)
(* Claims about the student agent's tracking and the question picker.      *)
(***************************************************************************)
\* the per-subtopic tracking records
Tracked ==
    session_data.mastery_tracking.subtopics

\* the subtopic the picker is on, once lines 122-125 have run
PickerSubtopic ==
    IF current_subtopic = <<>> THEN topic ELSE current_subtopic[1]

\* C2: after any sequence of save_question_data and reset_subtopic_mastery
\* calls a subtopic's tracking record has mastery_achieved only if its
\* attempts are >= 3; and a get_next_question call changes the picker's
\* current subtopic (setting it to the session topic on the first call is
\* not a change) only if the record of the current subtopic had
\* mastery_achieved and attempts >= 3 when it was called.
C2_MasteryNeedsThreeAttempts ==
    /\ [](\A s \in DOMAIN Tracked :
             Tracked[s].mastery_achieved => Tracked[s].attempts >= 3)
    /\ [][(ret'.op = "get_next_question"
              /\ current_subtopic' # << PickerSubtopic >>)
          => \E s \in DOMAIN Tracked :
                /\ Lower(s) = Lower(PickerSubtopic)
                /\ Tracked[s].mastery_achieved
                /\ Tracked[s].attempts >= 3]_vars

\* C2 witness: the picker has moved from INNER JOIN, mastered on the third
\* attempt, to OUTER JOIN
C2_Witness ==
    /\ ret.op = "get_next_question"
    /\ current_subtopic = << OuterJoin >>
    /\ InnerJoin \in DOMAIN Tracked
    /\ Tracked[InnerJoin].mastery_achieved
    /\ Tracked[InnerJoin].attempts = 3

\* C3: once a subtopic's tracking record has mastery_achieved, no later
\* save_question_data call for that subtopic sets it back to false.
C3_MasteryNeverReverts ==
    [][\A s \in DOMAIN Tracked :
          (ret'.op = "save_question_data" /\ ret'.subtopic = s
              /\ Tracked[s].mastery_achieved)
          => session_data'.mastery_tracking.subtopics[s].mastery_achieved]_vars

\* C4: when a get_next_question call moves the picker to a new subtopic S,
\* then on return S's tracking record has mastery_score 0, attempts 0 and
\* mastery_achieved false, the concept map, the weak-concept map and the gap
\* list are empty; a call that does not move the picker changes none of
\* the student agent's data.
C4_AdvanceResets ==
    [][ret'.op = "get_next_question"
       => IF current_subtopic' # << PickerSubtopic >>
          THEN LET S == current_subtopic'[1]
                   tracking == session_data'.mastery_tracking
               IN /\ S \in DOMAIN tracking.subtopics
                  /\ tracking.subtopics[S].mastery_score = <<0, 1>>
                  /\ tracking.subtopics[S].attempts = 0
                  /\ ~tracking.subtopics[S].mastery_achieved
                  /\ DOMAIN tracking.concepts = {}
                  /\ session_data'.weak_concepts = <<>>
                  /\ session_data'.concept_gaps = <<>>
          ELSE session_data' = session_data]_vars

\* C4 witness: the picker has moved to OUTER JOIN, for which an answer with
\* weak concepts had been saved before
C4_Witness ==
    /\ ret.op = "get_next_question"
    /\ ret.moved
    /\ current_subtopic = << OuterJoin >>
    /\ Tracked[OuterJoin].attempts = 0
    /\ \E i \in DOMAIN session_data.questions_history :
          LET r == session_data.questions_history[i]
          IN /\ r.cluster_info.subtopic_name = OuterJoin
             /\ r.evaluation.weak_concepts # <<>>

\* C6: a tracking record of a subtopic or of a concept, absent or reset
\* before, holds after n updates with the scores s1..sn the mean
\* (s1 + ... + sn) / n as its mastery_score and n as its attempts.
C6_RunningMean ==
    LET RECURSIVE Sum(_)
        Sum(scores) == IF scores = <<>> THEN Zero
                       ELSE RatAdd(Head(scores), Sum(Tail(scores)))
        MeanOf(record, scores) ==
            /\ record.attempts = Len(scores)
            /\ record.mastery_score =
                   IF scores = <<>> THEN Zero
                   ELSE Rat(Sum(scores)[1], Sum(scores)[2] * Len(scores))
        concepts == session_data.mastery_tracking.concepts
    IN /\ DOMAIN Tracked = DOMAIN incoming_scores.subtopics
       /\ DOMAIN concepts = DOMAIN incoming_scores.concepts
       /\ \A s \in DOMAIN Tracked :
             MeanOf(Tracked[s], incoming_scores.subtopics[s])
       /\ \A c \in DOMAIN concepts :
             MeanOf(concepts[c], incoming_scores.concepts[c])

\* C6 witness: the scores 1.0, 0.2, 0.6 gave a subtopic and a concept the
\* mean 0.6
C6_Witness ==
    /\ InnerJoin \in DOMAIN Tracked
    /\ incoming_scores.subtopics[InnerJoin] = << <<1, 1>>, <<1, 5>>, <<3, 5>> >>
    /\ Tracked[InnerJoin].mastery_score = <<3, 5>>
    /\ Tracked[InnerJoin].attempts = 3
    /\ Join \in DOMAIN session_data.mastery_tracking.concepts
    /\ session_data.mastery_tracking.concepts[Join].mastery_score = <<3, 5>>

(***************************************************************************)
(* Claims about the grading.                                               *)
(***************************************************************************)
\* C9: for an empty answer and for an answer that is, up to case, one of
\* 'i dont know', 'idk', 'skip', 'dont know', "i don't know",
\* _grade_sql_answer returns is_correct false and score 0 with empty
\* weak_concepts and missing_concepts, and does not invoke the grader.
C9_NoAnswerShortCircuit ==
    (ret.op = "grade_sql_answer"
        /\ (\/ ret.user_answer = <<>>
            \/ Lower(ret.user_answer)
                  \in {IDontKnow, Idk, Skip, DontKnow, IDoNotKnow}))
    => /\ ret.result.is_correct = FALSE
       /\ ret.result.score = 0
       /\ ret.result.weak_concepts = <<>>
       /\ ret.result.missing_concepts = <<>>
       /\ ~ret.grader_invoked

\* C9 witness: 'IDK' was given where the grader would have marked the
\* answer correct
C9_Witness ==
    /\ ret.op = "grade_sql_answer"
    /\ ret.user_answer = <<"I", "D", "K">>
    /\ ret.outcome.kind = "answer"
    /\ "is_correct" \in DOMAIN ret.outcome.response
    /\ ret.outcome.response.is_correct
    /\ ~ret.grader_invoked
    /\ ret.result.score = 0

\* C10: when the grader's response omits keys, the result of
\* _grade_sql_answer has every expected key: a missing score is 50 if the
\* response marks is_correct true and 0 otherwise, a missing is_correct is
\* false, missing feedback and explanation are the placeholder strings,
\* missing lists are empty; the keys of the response keep their values.
C10_MissingKeysFilled ==
    (ret.op = "grade_sql_answer" /\ ret.grader_invoked
        /\ ret.outcome.kind = "answer")
    => LET response == ret.outcome.response
           result == ret.result
           Missing(k) == k \notin DOMAIN response
       IN /\ DOMAIN result = {"score", "is_correct", "feedback", "explanation",
                              "weak_concepts", "missing_concepts",
                              "concept_understanding"}
          /\ \A k \in DOMAIN response : result[k] = response[k]
          /\ Missing("score") =>
                result.score = IF ~Missing("is_correct") /\ response.is_correct
                               THEN 50 ELSE 0
          /\ Missing("is_correct") => result.is_correct = FALSE
          /\ Missing("feedback") => result.feedback = "No feedback provided."
          /\ Missing("explanation") =>
                result.explanation = "No explanation provided."
          /\ Missing("weak_concepts") => result.weak_concepts = <<>>
          /\ Missing("missing_concepts") => result.missing_concepts = <<>>
          /\ Missing("concept_understanding") =>
                DOMAIN result.concept_understanding = {}

\* C10 witness: the grader answered with is_correct true and nothing else
C10_Witness ==
    /\ ret.op = "grade_sql_answer"
    /\ ret.grader_invoked
    /\ ret.outcome.kind = "answer"
    /\ DOMAIN ret.outcome.response = {"is_correct"}
    /\ ret.outcome.response.is_correct
    /\ ret.result.score = 50
    /\ ret.result.feedback = "No feedback provided."

(***************************************************************************)
(* Claims about the estimator's own flag.                                  *)
(***************************************************************************)
\* C8: two estimator responses that are equal except for mastery_achieved
\* make assess_mastery_with_llm return the same result and leave the same
\* state; and the mastery_achieved it returns when the estimator has
\* answered is true exactly if the probability is >= the threshold and the
\* subtopic has at least 3 attempts.
C8_EstimatorFlagIgnored ==
    /\ \A o1, o2 \in EstimatorOutcomes :
          (/\ o1.kind = o2.kind
           /\ [k \in DOMAIN o1.response \ {"mastery_achieved"} |-> o1.response[k]]
              = [k \in DOMAIN o2.response \ {"mastery_achieved"} |-> o2.response[k]])
          => AssessOutcome(mastery_agent, user_progress_file, o1)
             = AssessOutcome(mastery_agent, user_progress_file, o2)
    /\ (ret.op = "assess_mastery_with_llm" /\ ret.raised = "none")
          => ret.result.mastery_achieved
             = (/\ RatGeq(ret.result.mastery_probability, <<4, 5>>)
                /\ StateOf(current_subtopic_id).total_attempts >= 3)

(***************************************************************************)
(* Claims about the weak-concept tracker.                                  *)
(***************************************************************************)
\* C11: a save whose evaluation has is_correct false and empty
\* weak_concepts and missing_concepts leaves the weak-concept map (names and
\* occurrences) and the concept-gap list as they were before the call.
C11_EmptyJudgmentLeavesTracker ==
    [][(LET h == session_data'.questions_history
            e == Get(h[Len(h)], "evaluation", EmptyDict)
        IN /\ ret'.op = "save_question_data"
           /\ "is_correct" \in DOMAIN e
           /\ ~e.is_correct
           /\ e.weak_concepts = <<>>
           /\ e.missing_concepts = <<>>)
       => /\ session_data'.weak_concepts = session_data.weak_concepts
          /\ session_data'.concept_gaps = session_data.concept_gaps]_vars

\* a tracker that holds weak concepts and gaps has ingested a wrong answer
\* for which the grader named no concept
C11_Witness ==
    LET h == session_data.questions_history
        e == Get(h[Len(h)], "evaluation", EmptyDict)
    IN /\ ret.op = "save_question_data"
       /\ "is_correct" \in DOMAIN e
       /\ ~e.is_correct
       /\ e.weak_concepts = <<>>
       /\ e.missing_concepts = <<>>
       /\ session_data.weak_concepts # <<>>
       /\ session_data.concept_gaps # <<>>

\* C12: a save adds to each weak concept's occurrences (0 for a concept not
\* yet in the map) the number of times the evaluation reports it, so that a
\* concept is created with 1 on its first report and grows by one per later
\* report and none is removed or decreased; the gap list keeps its entries
\* in place and gains the missing concepts it did not hold; and the gap
\* list never holds a concept twice.
C12_TrackerOnlyGrows ==
    /\ [](\A i, j \in DOMAIN session_data.concept_gaps :
             session_data.concept_gaps[i] = session_data.concept_gaps[j]
                 => i = j)
    /\ [][ret'.op = "save_question_data" =>
           LET h == session_data'.questions_history
               e == Get(h[Len(h)], "evaluation", EmptyDict)
               reported == Get(e, "weak_concepts", <<>>)
               missing == Get(e, "missing_concepts", <<>>)
               old == session_data.weak_concepts
               new == session_data'.weak_concepts
               gaps == session_data.concept_gaps
               Occ(weak, c) ==
                   IF IndexOfConcept(weak, c) = 0 THEN 0
                   ELSE weak[IndexOfConcept(weak, c)].occurrences
               Count(c) ==
                   Cardinality({i \in DOMAIN reported : reported[i] = c})
           IN /\ \A c \in {old[i].concept : i \in DOMAIN old}
                           \cup {new[i].concept : i \in DOMAIN new}
                           \cup SeqRange(reported) :
                     Occ(new, c) = Occ(old, c) + Count(c)
              /\ \A i, j \in DOMAIN new : new[i].concept = new[j].concept => i = j
              /\ Len(gaps) <= Len(session_data'.concept_gaps)
              /\ SubSeq(session_data'.concept_gaps, 1, Len(gaps)) = gaps
              /\ SeqRange(session_data'.concept_gaps)
                    = SeqRange(gaps) \cup SeqRange(missing)]_vars

\* a concept reported three times over two saves beside one reported once,
\* and a gap list that met a concept it held already
C12_Witness ==
    /\ session_data.weak_concepts
          = << [concept |-> Join, occurrences |-> 3],
               [concept |-> OnClause, occurrences |-> 1] >>
    /\ session_data.concept_gaps = << Alias, Join >>
    /\ Len(session_data.questions_history) = 2

(***************************************************************************)
(* Claims about the attempt ledger.                                        *)
(***************************************************************************)
\* C13: record_attempt for subtopic X (the question's subtopic_id, the
\* agent's current subtopic when the question carries none) appends exactly
\* one attempt to the end of X's attempts_history, adds 1 to X's
\* total_attempts, adds 1 to X's correct_attempts if and only if the attempt
\* is correct (which is the evaluation's is_correct when it has one), unions
\* the tested concepts (the question's concepts when it names any) into X's
\* concepts_encountered, and touches no other subtopic.
C13_RecordAttempt ==
    /\ [](\A q \in AgentQuestions, ev \in AgentEvaluations,
             ca \in {<<>>, Lower(Select)} :
             LET new == RecordedStates(mastery_agent, q, Select, ca, ev)
                 X == IF "subtopic_id" \in DOMAIN q THEN q.subtopic_id
                      ELSE current_subtopic_id
                 old == StateOf(X)
                 n == Len(old.attempts_history)
                 a == new[X].attempts_history[n + 1]
             IN /\ \A s \in SubtopicIds \ {X} : new[s] = StateOf(s)
                /\ Len(new[X].attempts_history) = n + 1
                /\ SubSeq(new[X].attempts_history, 1, n) = old.attempts_history
                /\ a.subtopic = X
                /\ a.user_answer = Select
                /\ new[X].total_attempts = old.total_attempts + 1
                /\ new[X].correct_attempts
                      = old.correct_attempts + (IF a.is_correct THEN 1 ELSE 0)
                /\ ("is_correct" \in DOMAIN ev => a.is_correct = ev.is_correct)
                /\ new[X].concepts_encountered
                      = old.concepts_encountered \cup SeqRange(a.concepts_tested)
                /\ (Get(q, "concepts", <<>>) # <<>>
                      => a.concepts_tested = q.concepts))
    /\ [][ret'.op = "record_attempt" =>
           LET X == ret'.subtopic_id
               old == StateOf(X).attempts_history
               new == subtopic_mastery_states'[X].attempts_history
           IN /\ Len(new) = Len(old) + 1
              /\ SubSeq(new, 1, Len(old)) = old
              /\ new[Len(new)].is_correct = ret'.is_correct
              /\ subtopic_mastery_states'[X].total_attempts
                    = StateOf(X).total_attempts + 1
              /\ subtopic_mastery_states'[X].correct_attempts
                    = StateOf(X).correct_attempts
                      + (IF ret'.is_correct THEN 1 ELSE 0)
              /\ \A s \in SubtopicIds \ {X} :
                    subtopic_mastery_states'[s] = StateOf(s)]_vars

\* a correct second attempt has been recorded for a subtopic that the
\* question names and that is not the agent's current one
C13_Witness ==
    /\ ret.op = "record_attempt"
    /\ ret.subtopic_id # current_subtopic_id
    /\ ret.is_correct
    /\ StateOf(ret.subtopic_id).total_attempts = 2
    /\ StateOf(ret.subtopic_id).correct_attempts = 1

\* C14: in any sequence of record_attempt, assess_mastery_with_llm,
\* advance_to_next_subtopic, save_question_data, reset_subtopic_mastery and
\* get_next_question calls, every call leaves each subtopic's
\* attempts_history and the profile's questions_history with the list of
\* before the call as a prefix: entries are only added at the end.
C14_LedgerAppendOnly ==
    [][LET IsPrefix(old, new) ==
               /\ Len(old) <= Len(new)
               /\ SubSeq(new, 1, Len(old)) = old
       IN /\ \A s \in SubtopicIds :
                IsPrefix(StateOf(s).attempts_history,
                         subtopic_mastery_states'[s].attempts_history)
          /\ IsPrefix(session_data.questions_history,
                      session_data'.questions_history)]_vars

\* a reset has run on a profile that holds a saved question, beside an
\* agent that holds an attempt and has advanced
C14_Witness ==
    /\ ret.op = "reset_subtopic_mastery"
    /\ Len(session_data.questions_history) >= 1
    /\ current_subtopic_index = 1
    /\ Len(StateOf(subtopic_sequence[1].subtopic_id).attempts_history) >= 1

(***************************************************************************)
(* Claims about the question picker's choices.                             *)
(***************************************************************************)
\* C15: with no priority concept, the cluster selected for a running score
\* below 0.40 has complexity <= 2, below 0.60 complexity 2..3, below 0.80
\* complexity 3..4, otherwise >= 4, unless no cluster given lies in that
\* band; the selected cluster is one of those given.
C15_ComplexityBand ==
    (/\ ret.op = "select_cluster_by_concept_coverage"
     /\ ret.priority_concepts = {}
     /\ ret.clusters # <<>>)
    => LET score == ret.mastery_score
           Band == IF score[1] * 100 < 40 * score[2] THEN 1..2
                   ELSE IF score[1] * 100 < 60 * score[2] THEN 2..3
                   ELSE IF score[1] * 100 < 80 * score[2] THEN 3..4
                   ELSE {4, 5}
           levels == {ret.clusters[i].complexity_level : i \in DOMAIN ret.clusters}
       IN /\ Len(ret.selected) = 1
          /\ ret.selected[1] \in SeqRange(ret.clusters)
          /\ (levels \cap Band # {}
                => ret.selected[1].complexity_level \in Band)

\* clusters of complexity 1 and 4, score 0.35, no priority concept: the
\* cluster of complexity 1 has been selected
C15_Witness ==
    /\ ret.op = "select_cluster_by_concept_coverage"
    /\ ret.priority_concepts = {}
    /\ ret.clusters = <<ClusterOfLevel(1), ClusterOfLevel(4)>>
    /\ ret.mastery_score = <<7, 20>>
    /\ ret.selected = <<ClusterOfLevel(1)>>

\* C22: given priority concepts, the cluster selected is one of those given
\* whose coverage count is the greatest among them, and among the clusters
\* of that coverage one that tests the most skills.
C22_HighestCoverage ==
    (/\ ret.op = "select_cluster_by_concept_coverage"
     /\ ret.priority_concepts # {}
     /\ ret.clusters # <<>>)
    => LET Coverage(c) == CoverageScore(c, ret.priority_concepts)
           given == SeqRange(ret.clusters)
       IN /\ Len(ret.selected) = 1
          /\ ret.selected[1] \in given
          /\ \A c \in given :
                \/ Coverage(c) < Coverage(ret.selected[1])
                \/ /\ Coverage(c) = Coverage(ret.selected[1])
                   /\ Len(c.skills_tested) <= Len(ret.selected[1].skills_tested)

\* C16: a get_next_question call that finds every problem of the selected
\* cluster in the asked set returns, with completed false, a problem of that
\* cluster; every returned problem belongs to the selected cluster, is an
\* unasked one while the cluster has any, and joins the asked set; and the
\* call reports that no problems are available only if a cluster of its
\* subtopic has no problem at all.
C16_RepeatsWhenAllAsked ==
    [][ret'.op = "get_next_question" =>
        LET p == ret'.payload
            asked == IF ret'.moved \/ current_subtopic = <<>> THEN {}
                     ELSE asked_problems
            OfCluster(c) ==
                {problems[i].problem_id :
                    i \in {j \in DOMAIN problems : problems[j].cluster_id = c}}
        IN /\ ret'.repeats => ~p.completed
           /\ ~p.completed =>
                 LET all == OfCluster(p.cluster_info.cluster_id)
                 IN /\ p.problem_id \in all
                    /\ ret'.repeats <=> all \subseteq asked
                    /\ ~(all \subseteq asked) => p.problem_id \notin asked
                    /\ asked_problems' = asked \cup {p.problem_id}
           /\ (p.completed /\ p.message = "No problems available")
                 => \E c \in SeqRange(get_clusters_for_subtopic(
                                          current_subtopic'[1])) :
                       OfCluster(c.cluster_id) = {}]_vars

\* a call has found both problems of the first cluster asked and has
\* returned one of them again
C16_Witness ==
    /\ ret.op = "get_next_question"
    /\ ret.repeats
    /\ ~ret.payload.completed
    /\ ret.payload.cluster_info.cluster_id = "c1"
    /\ ret.payload.problem_id \in {"p1", "p2"}
    /\ asked_problems = {"p1", "p2"}

\* C17: a get_next_question call that finds the current subtopic mastered
\* (in the profile handed to it the subtopic's record has mastery_achieved
\* and at least 3 attempts) moves the cursor to the first subtopic in
\* knowledge-graph order whose record in that profile does not have
\* mastery_achieved, and returns the all-subtopics-complete signal exactly
\* when every subtopic of the graph has mastery_achieved there; a call that
\* follows a returned signal returns it again and changes no state.
C17_NextUnmasteredSubtopic ==
    [][ret'.op = "get_next_question" =>
        LET names == [i \in DOMAIN GraphSubtopics |->
                         GraphSubtopics[i].subtopic_name]
            seen == Get(get_profile(session_data, profile).mastery_scores,
                        "subtopics", EmptyDict)
            Mastered(name) ==
                /\ name \in DOMAIN seen
                /\ seen[name].mastery_achieved
            unmastered == SelectSeq(names, LAMBDA n : ~Mastered(n))
            cursor == {k \in DOMAIN seen : Lower(k) = Lower(PickerSubtopic)}
            current_mastered ==
                \E k \in cursor : /\ seen[k].mastery_achieved
                                   /\ seen[k].attempts >= 3
            AllComplete(payload) ==
                /\ payload.completed
                /\ payload.message = "All subtopics mastered"
        IN /\ current_mastered =>
                 IF unmastered = <<>>
                 THEN /\ AllComplete(ret'.payload)
                      /\ session_data' = session_data
                      /\ asked_problems' = asked_problems
                      /\ current_subtopic' = << PickerSubtopic >>
                 ELSE /\ ~AllComplete(ret'.payload)
                      /\ current_subtopic' = << unmastered[1] >>
           /\ AllComplete(ret'.payload) => current_mastered /\ unmastered = <<>>
           /\ (ret.op = "get_next_question" /\ AllComplete(ret.payload))
                 => /\ ret' = ret
                    /\ UNCHANGED <<student_vars, picker_vars>>]_vars

(***************************************************************************)
(* Claims about the session's catalog.                                     *)
(***************************************************************************)
\* C18: when the subtopic get_next_question serves has no clusters, or
\* none of its clusters has a problem, the call returns completed = true
\* without a question; a returned "No problems available" means that a
\* cluster of the subtopic has no problem; and a call that returns either
\* blocked payload leaves the asked-problem set as it was.  The same for
\* generate_initial_question at the session start, whose clusters are the
\* clusters of the topic at the default difficulty's complexity.
C18_BlockedPayload ==
    [][LET NoProblems(c) == get_problems_for_cluster(c.cluster_id) = <<>>
           NoContent(clusters) == \A c \in SeqRange(clusters) : NoProblems(c)
           Blocked(p, messages) ==
               /\ p.completed
               /\ p.message \in messages
               /\ "problem_id" \notin DOMAIN p
       IN /\ ret'.op = "submit_answer" =>
                LET p == ret'.payload
                    clusters == get_clusters_for_subtopic(current_subtopic'[1])
                    messages == {"No clusters found", "No problems available"}
                IN /\ NoContent(clusters) => Blocked(p, messages)
                   /\ (p.completed /\ p.message = "No clusters found")
                         => clusters = <<>>
                   /\ (p.completed /\ p.message = "No problems available")
                         => \E c \in SeqRange(clusters) : NoProblems(c)
                   /\ Blocked(p, messages) => asked_problems' = asked_problems
          /\ (ret'.op = "start_session" /\ ret'.outcome = "started") =>
                LET p == tutor_state'.current_question
                    clusters == SelectSeq(get_clusters_for_subtopic(topic),
                                          LAMBDA c : c.complexity_level = 1)
                    messages == {"No clusters found for topic",
                                 "No problems available for cluster"}
                IN /\ NoContent(clusters) => Blocked(p, messages)
                   /\ p.completed => /\ Blocked(p, messages)
                                     /\ asked_problems' = asked_problems]_vars

\* C19: while knowledge_graph.json or problems.json is absent, no session
\* has started, no agent is stored, neither the user data file nor the
\* progress file exists and no mastery state is held; a started web
\* session start has not ended in an exception and a started console
\* session has returned with its warning.
C19_MissingCatalogStops ==
    "absent" \in {catalog.knowledge_graph, catalog.problems} =>
        /\ ~tutor_state.session_started
        /\ tutor_state.agents = {}
        /\ user_data_file = <<>>
        /\ user_progress_file = <<>>
        /\ subtopic_mastery_states = EmptyDict
        /\ ret.op = "start_session" => ret.outcome # "FileNotFoundError"
        /\ ret.op = "run_learning_session" =>
              ret.outcome \in {"No problems loaded", "No knowledge graph loaded"}

(***************************************************************************)
(* Claims about the persisted progress.                                    *)
(***************************************************************************)
\* C20: when a turn has finished, that is when assess_mastery_with_llm has
\* returned right after a record_attempt, by the estimator's answer or by a
\* fallback (a failing write of the progress file set aside), the progress
\* file exists and shows for every subtopic the total_attempts,
\* correct_attempts and mastery_probability held in memory.
C20_ProgressMatchesMemory ==
    [][(/\ ret.op = "record_attempt"
        /\ ret'.op = "assess_mastery_with_llm"
        /\ ret'.raised # "save")
       => /\ user_progress_file' # <<>>
          /\ \A s \in SubtopicIds :
                LET saved == user_progress_file'[1].subtopic_progress[s]
                    held == subtopic_mastery_states'[s]
                IN /\ saved.total_attempts = held.total_attempts
                   /\ saved.correct_attempts = held.correct_attempts
                   /\ saved.mastery_probability = held.mastery_probability]_vars

\* C28: a call of assess_mastery_with_llm that returns a fallback result,
\* whatever raised (the context preparation, the estimator, a response
\* without mastery_probability, the write of the progress file), leaves the
\* subtopic states and problem_assessments as they were before the call.
C28_FallbackLeavesState ==
    [][(ret'.op = "assess_mastery_with_llm" /\ ret'.raised # "none")
       => UNCHANGED <<subtopic_mastery_states, problem_assessments>>]_vars

(***************************************************************************)
(* Claims about the web session's turns.                                   *)
(***************************************************************************)
\* C26: in the student agent's tracking, a subtopic recorded with
\* mastery_achieved = TRUE has a running mastery_score of at least 0.80.
C26_MasteredScoreAtThreshold ==
    tutor_state.session_started
        => \A s \in DOMAIN Tracked :
              Tracked[s].mastery_achieved
                  => RatGeq(Tracked[s].mastery_score, mastery_threshold)

\* C29: a get_next_question call never unsets a mastery_achieved flag of the
\* tracking: when it moves on, the subtopic it moves to was not recorded as
\* mastered, that subtopic's record is the only one it resets, and every
\* other record is kept; when it does not move on, all records are kept.
C29_MasteredNeverUnset ==
    [][ret'.op = "get_next_question" =>
        /\ \A s \in DOMAIN Tracked :
              Tracked[s].mastery_achieved
                  => (s \in DOMAIN Tracked' /\ Tracked'[s].mastery_achieved)
        /\ IF ret'.moved
           THEN LET chosen == current_subtopic'[1]
                IN /\ ~(chosen \in DOMAIN Tracked /\ Tracked[chosen].mastery_achieved)
                   /\ chosen \in DOMAIN Tracked'
                   /\ Tracked'[chosen].attempts = 0
                   /\ ~Tracked'[chosen].mastery_achieved
                   /\ \A s \in DOMAIN Tracked \ {chosen} :
                         s \in DOMAIN Tracked' /\ Tracked'[s] = Tracked[s]
           ELSE Tracked' = Tracked]_vars

\* the picker has moved on from the mastered INNER JOIN, whose record still
\* has mastery_achieved, to OUTER JOIN, whose record was reset
C29_Witness ==
    /\ ret.op = "get_next_question"
    /\ ret.moved
    /\ current_subtopic = << subtopic_sequence[2].subtopic_name >>
    /\ subtopic_sequence[1].subtopic_name \in DOMAIN Tracked
    /\ Tracked[subtopic_sequence[1].subtopic_name].mastery_achieved
    /\ Tracked[subtopic_sequence[2].subtopic_name].attempts = 0

\* C30: a web turn whose grader call raises (for a non-empty answer that is
\* not a "don't know") has the evaluation is_correct false, score 0, no
\* weak and no missing concepts, records the attempt as incorrect, and
\* leaves the weak-concept tracker (weak_concepts and concept_gaps) as it
\* was before the turn.
C30_UngradedTurnKeepsTracker ==
    [][(ret'.op = "submit_answer" /\ ret'.grader = "raise")
       => /\ LET before == subtopic_mastery_states[current_subtopic_id]
                 after == subtopic_mastery_states'[current_subtopic_id]
                 saved == session_data'.questions_history
             IN /\ ~ret'.evaluation.is_correct
                /\ ret'.evaluation.score = 0
                /\ ret'.evaluation.weak_concepts = <<>>
                /\ ret'.evaluation.missing_concepts = <<>>
                /\ after.total_attempts = before.total_attempts + 1
                /\ after.correct_attempts = before.correct_attempts
                /\ ~after.attempts_history[Len(after.attempts_history)].is_correct
                /\ saved # <<>>
                /\ ~saved[Len(saved)].evaluation.is_correct
          /\ session_data'.weak_concepts = session_data.weak_concepts
          /\ session_data'.concept_gaps = session_data.concept_gaps]_vars

\* C30 amended: as C30, but the tracker is left as it was only when the
\* turn's get_next_question stays on the subtopic; when it moves on to the
\* next subtopic the tracker is cleared.
C30_UngradedTurnAddsNothing ==
    [][(ret'.op = "submit_answer" /\ ret'.grader = "raise")
       => /\ LET before == subtopic_mastery_states[current_subtopic_id]
                 after == subtopic_mastery_states'[current_subtopic_id]
                 saved == session_data'.questions_history
             IN /\ ~ret'.evaluation.is_correct
                /\ ret'.evaluation.score = 0
                /\ ret'.evaluation.weak_concepts = <<>>
                /\ ret'.evaluation.missing_concepts = <<>>
                /\ after.total_attempts = before.total_attempts + 1
                /\ after.correct_attempts = before.correct_attempts
                /\ ~after.attempts_history[Len(after.attempts_history)].is_correct
                /\ saved # <<>>
                /\ ~saved[Len(saved)].evaluation.is_correct
          /\ IF ret'.moved
             THEN /\ session_data'.weak_concepts = <<>>
                  /\ session_data'.concept_gaps = <<>>
             ELSE /\ session_data'.weak_concepts = session_data.weak_concepts
                  /\ session_data'.concept_gaps = session_data.concept_gaps]_vars

\* the grader raised in a turn that stayed on the subtopic, and the tracker
\* still holds what an earlier wrong answer put there
C30_Witness ==
    /\ ret.op = "submit_answer"
    /\ ret.grader = "raise"
    /\ ~ret.moved
    /\ ret.evaluation.score = 0
    /\ session_data.weak_concepts # <<>>
    /\ session_data.concept_gaps # <<>>
    /\ Len(session_data.questions_history) >= 2

\* C21: in a web turn that stays on the subtopic, if after the attempt the
\* tracker holds a weak or missing concept that matches a skill of some
\* cluster of the current subtopic, the question picked next is of a
\* cluster whose coverage of the tracked concepts is the highest of the
\* subtopic's clusters.
C21_TrackedConceptsSteer ==
    [][(ret'.op = "submit_answer" /\ ~ret'.moved /\ ~ret'.payload.completed)
       => LET tracked == extract_priority_concepts(session_data'.weak_concepts,
                                                   session_data'.concept_gaps)
              clusters == SeqRange(get_clusters_for_subtopic(current_subtopic'[1]))
              Coverage(c) == CoverageScore(c, tracked)
          IN (\E c \in clusters : Coverage(c) > 0)
                => \A c \in clusters :
                      Coverage(c) <= Coverage(ret'.payload.cluster_info)]_vars

\* C23: in a web turn that stays on the subtopic, the problem picked next is
\* none of the problems already served in this pass of the subtopic (the
\* initial question included) as long as its cluster has a problem that was
\* not served yet.
C23_NoRepeatWhileUnserved ==
    [][(ret'.op = "submit_answer" /\ ~ret'.moved /\ ~ret'.payload.completed)
       => LET history == session_data'.questions_history
              served == {history[i].problem_id :
                            i \in {k \in DOMAIN history :
                                      history[k].cluster_info.subtopic_name =
                                          ret'.payload.cluster_info.subtopic_name}}
              of_cluster == {p.problem_id :
                                p \in SeqRange(get_problems_for_cluster(
                                          ret'.payload.cluster_info.cluster_id))}
          IN (of_cluster \ served # {})
                => ret'.payload.problem_id \notin served]_vars

\* C27: in every state of the web session where a question awaits an
\* answer, the mastery agent's current_subtopic_id is the id of the subtopic
\* the picker is on, also after the picker has moved on.
C27_CursorsAgree ==
    (/\ tutor_state.session_started
     /\ tutor_state.agents = SessionAgents
     /\ tutor_state.current_question # EmptyDict
     /\ ~tutor_state.current_question.completed)
    => \E i \in DOMAIN subtopic_sequence :
          /\ subtopic_sequence[i].subtopic_id = current_subtopic_id
          /\ Lower(subtopic_sequence[i].subtopic_name) = Lower(PickerSubtopic)

\* C24: the web turn whose get_next_question call moves on to the next
\* subtopic selects the first cluster of that subtopic as for a restarted
\* subtopic (mastery score 0 and no priority concepts): a cluster of
\* complexity at most 2 whenever the new subtopic has one.
C24_FirstClusterOfRestartedSubtopic ==
    [][(ret'.op = "submit_answer" /\ ret'.moved /\ ~ret'.payload.completed)
       => LET clusters == SeqRange(get_clusters_for_subtopic(current_subtopic'[1]))
          IN (\E c \in clusters : c.complexity_level <= 2)
                => ret'.payload.cluster_info.complexity_level <= 2]_vars

====
